---- MODULE Spec2Model ----
(***************************************************************************)
(* docklean: scan / filter / select / clean orchestration.                 *)
(*                                                                         *)
(* The module models the command line run (run, parseArgs, checkDocker),   *)
(* the scan (scanResources and its filters) and the cleanup                *)
(* (cleanResources) as state machines over the calls issued to the docker  *)
(* CLI.  Optional values (TypeScript `x?: T`) are sequences of length 0    *)
(* (undefined) or 1.  Times are milliseconds since the epoch.              *)
(***************************************************************************)
EXTENDS Integers, Sequences, FiniteSets, TLC

VARIABLES
    entry,                  \* the exported operation this behaviour exercises
    pc,                     \* position inside that operation
    isTTY,                  \* process.stdout.isTTY
    docker,                 \* what the docker CLI answers (the provider)
    parsed,                 \* parseArgs result: options, olderThanMs, limitSpaceBytes
    calls,                  \* the docker commands issued so far, in order
    replies,                \* how each settled command ended, in the same order
    scanOpts,               \* ScanOptions handed to scanResources
    summaries,              \* ScanResult.summaries
    totalReclaimableBytes,  \* ScanResult.totalReclaimableBytes
    prompt,                 \* the confirmation prompt: "none" or the response
    cleanOpts,              \* CleanOptions handed to cleanResources
    cleanIdx,               \* index of the next entry of cleanOpts.resources
    removed,                \* CleanResult.removed
    failures,               \* CleanResult.failures
    reclaimedBytes,         \* CleanResult.reclaimedBytes
    cleanCalls,             \* how many times cleanResources was invoked
    scanCalls,              \* how many times scanResources was invoked
    inflight,               \* the docker command awaited, <<>> when none
    wouldRun,               \* the commands a dry run printed as "Would run"
    exitCode,               \* process exit code, <<>> while running
    fnArgs,                 \* arguments of a pure function under test
    fnResult                \* its result, <<>> before the call

vars == <<entry, pc, isTTY, docker, parsed, calls, replies, scanOpts, summaries,
          totalReclaimableBytes, prompt, cleanOpts, cleanIdx, removed, failures,
          reclaimedBytes, cleanCalls, scanCalls, inflight, wouldRun, exitCode,
          fnArgs, fnResult>>

envVars == <<entry, isTTY, docker>>
fnVars == <<fnArgs, fnResult>>
scanVars == <<scanOpts, summaries, totalReclaimableBytes, scanCalls>>
runVars == <<parsed, prompt, wouldRun, exitCode>>

None == <<>>
Some(v) == <<v>>

RECURSIVE SumSeq(_)
SumSeq(s) == IF s = <<>> THEN 0 ELSE Head(s) + SumSeq(Tail(s))

Range(s) == {s[i] : i \in DOMAIN s}

Includes(s, x) == x \in Range(s)

(***************************************************************************)
(* types.ts                                                                *)
(***************************************************************************)
ResourceType == <<"containers", "images", "volumes", "networks", "cache">>

KindSet == Range(ResourceType)

(***************************************************************************)
(* The clock.  Date.now() is read as one fixed instant during a run.       *)
(***************************************************************************)
DateNow == 2000000000

Day == 24 * 60 * 60 * 1000

\* new Date(t).toISOString() and Date.parse(s) on the instants of the model.
IsoTable ==
    { <<DateNow,            "1970-01-24T03:33:20.000Z">>,
      <<DateNow - Day,      "1970-01-23T03:33:20.000Z">>,
      <<DateNow - 2 * Day,  "1970-01-22T03:33:20.000Z">>,
      <<DateNow - 7 * Day,  "1970-01-17T03:33:20.000Z">>,
      <<DateNow - 7 * Day - 1, "1970-01-17T03:33:19.999Z">>,
      <<DateNow - 10 * Day, "1970-01-14T03:33:20.000Z">> }

ToISOString(t) == (CHOOSE p \in IsoTable : p[1] = t)[2]

\* Date.parse: the instant of an ISO string, None standing for NaN.
DateParse(s) ==
    IF \E p \in IsoTable : p[2] = s
    THEN Some((CHOOSE p \in IsoTable : p[2] = s)[1])
    ELSE None

NumberIsNaN(x) == x = None

(***************************************************************************)
(* Size codec                                                              *)
(***************************************************************************)
\* The match of /([0-9.]+)\s*(B|kB|KB|MB|GB|TB)/i in a size string and
\* Number(match[1]) as mantissa / 10^decimals; None when nothing matches.
SizeMatch(size) ==
    CASE size = "0B"      -> Some([mantissa |-> 0,   decimals |-> 0, unit |-> "B"])
      [] size = "1.5B"    -> Some([mantissa |-> 15,  decimals |-> 1, unit |-> "B"])
      [] size = "512B"    -> Some([mantissa |-> 512, decimals |-> 0, unit |-> "B"])
      [] size = "1.2kB"   -> Some([mantissa |-> 12,  decimals |-> 1, unit |-> "kB"])
      [] size = "50 MB"   -> Some([mantissa |-> 50,  decimals |-> 0, unit |-> "MB"])
      [] size = "100 MB"  -> Some([mantissa |-> 100, decimals |-> 0, unit |-> "MB"])
      [] size = "100MB"   -> Some([mantissa |-> 100, decimals |-> 0, unit |-> "MB"])
      [] size = "150 MB"  -> Some([mantissa |-> 150, decimals |-> 0, unit |-> "MB"])
      [] size = "200MB"   -> Some([mantissa |-> 200, decimals |-> 0, unit |-> "MB"])
      [] size = "300MB"   -> Some([mantissa |-> 300, decimals |-> 0, unit |-> "MB"])
      [] size = "500MB"   -> Some([mantissa |-> 500, decimals |-> 0, unit |-> "MB"])
      [] size = "1.2 GB"  -> Some([mantissa |-> 12,  decimals |-> 1, unit |-> "GB"])
      [] size = "0B (virtual 100MB)"
                          -> Some([mantissa |-> 0,   decimals |-> 0, unit |-> "B"])
      [] OTHER            -> None

ToLowerCase(s) ==
    CASE s = "B" -> "b"
      [] s = "kB" -> "kb"
      [] s = "KB" -> "kb"
      [] s = "MB" -> "mb"
      [] s = "GB" -> "gb"
      [] s = "TB" -> "tb"
      [] s = "Exited" -> "exited"
      [] s = "Dead" -> "dead"
      [] OTHER -> s

Multiplier(unit) ==
    CASE unit = "b"  -> 1
      [] unit = "kb" -> 1000
      [] unit = "mb" -> 1000 * 1000
      [] unit = "gb" -> 1000 * 1000 * 1000
      [] OTHER       -> 1

Pow10(n) == IF n = 0 THEN 1 ELSE IF n = 1 THEN 10 ELSE 100

\* Math.round of a non-negative quotient: half rounds up.
MathRoundDiv(num, den) == (2 * num + den) \div (2 * den)

parseDockerSize(size) ==
    IF size = "" THEN 0
    ELSE LET match == SizeMatch(size) IN
         IF match = None THEN 0
         ELSE LET m    == match[1]
                  mult == Multiplier(ToLowerCase(m.unit))
                  den  == Pow10(m.decimals)
              IN IF mult >= den
                 THEN m.mantissa * (mult \div den)
                 ELSE MathRoundDiv(m.mantissa * mult, den)

(***************************************************************************)
(* Age filter                                                              *)
(***************************************************************************)
\* `!olderThanMs`: undefined or 0.
NoThreshold(olderThanMs) == olderThanMs = None \/ olderThanMs[1] = 0

filterUntilTimestamp(olderThanMs) ==
    IF NoThreshold(olderThanMs) THEN None
    ELSE Some(ToISOString(DateNow - olderThanMs[1]))

parseCreatedAt(raw) == IF raw = None \/ raw = Some("") THEN None ELSE raw

\* A filter that drops the item created exactly at the cutoff.
AgeRetainsAfter(item, cutoff) ==
    IF item.createdAt = None THEN FALSE
    ELSE LET created == DateParse(item.createdAt[1]) IN
         IF NumberIsNaN(created) THEN FALSE ELSE created[1] > cutoff

\* The predicate of items.filter in applyOlderThan.
AgeRetains(item, cutoff) ==
    IF item.createdAt = None THEN FALSE
    ELSE LET created == DateParse(item.createdAt[1]) IN
         IF NumberIsNaN(created) THEN FALSE ELSE created[1] >= cutoff

applyOlderThan(items, olderThanMs) ==
    IF NoThreshold(olderThanMs) THEN items
    ELSE LET cutoff == DateNow - olderThanMs[1]
             Keep(item) == AgeRetains(item, cutoff)
         IN SelectSeq(items, Keep)

(***************************************************************************)
(* The docker CLI: commands issued and what they print                     *)
(***************************************************************************)
\* One execDocker invocation: the subcommand, its flags, the until filter
\* and the identifiers passed.
Call(cmd, flags, until, ids) ==
    [cmd |-> cmd, flags |-> flags, until |-> until, ids |-> ids]

PruneCmd(type) ==
    CASE type = "containers" -> "container prune"
      [] type = "images"     -> "image prune"
      [] type = "volumes"    -> "volume prune"
      [] type = "networks"   -> "network prune"
      [] type = "cache"      -> "builder prune"

RemoveCmd(type) ==
    CASE type = "containers" -> "container rm"
      [] type = "images"     -> "image rm"
      [] type = "volumes"    -> "volume rm"
      [] type = "networks"   -> "network rm"

PruneCmds == {PruneCmd(t) : t \in KindSet}

RemoveCmds == {RemoveCmd(t) : t \in KindSet \ {"cache"}}

\* The arguments dockerPrune hands to execDocker.
dockerPrune(type, filterUntil, includeAllImages) ==
    Call(PruneCmd(type),
         CASE type = "images"  -> IF includeAllImages THEN {"-f", "-a"} ELSE {"-f"}
           [] type = "volumes" -> {"-f", "-a"}
           [] OTHER            -> {"-f"},
         filterUntil, <<>>)

\* The arguments dockerRemoveContainers / Images / Volumes / Networks hand
\* to execDocker; None when the identifier list is empty (no command runs).
dockerRemove(type, ids) ==
    IF Len(ids) = 0 THEN None
    ELSE Some(Call(RemoveCmd(type),
                   IF type = "networks" THEN {} ELSE {"-f"}, None, ids))

\* A line of stdout: a label and what follows it on the line.
Line(label, value) == [label |-> label, value |-> value]

DeletedLabel(type) ==
    CASE type = "containers" -> "Deleted Containers:"
      [] type = "images"     -> "Deleted Images:"
      [] type = "volumes"    -> "Deleted Volumes:"
      [] type = "networks"   -> "Deleted Networks:"
      [] type = "cache"      -> "Deleted layers:"

createPruneResponse(type, count, reclaimedSpace) ==
    << Line(DeletedLabel(type), count),
       Line("Total reclaimed space:", reclaimedSpace) >>

\* What a prune prints, by the output format of the installed docker.
PruneStdout(format, type) ==
    CASE format = "counted"  -> createPruneResponse(type, "2", "100 MB")
      [] format = "zero"     -> createPruneResponse(type, "0", "0B")
      [] format = "listed"   -> << Line(DeletedLabel(type), ""),
                                   Line("abc123def456", ""),
                                   Line("Total reclaimed space:", "50 MB") >>
      [] OTHER               -> << Line("Invalid output format", "") >>

ErrorMessage == "Command failed"

\* How a command ended: its stdout, or the rejection of execDocker.
Ok(stdout) == [ok |-> TRUE, stdout |-> stdout]

Failed == [ok |-> FALSE, stdout |-> <<>>]

(***************************************************************************)
(* clean.ts                                                                *)
(***************************************************************************)
\* Number() of a run of digits; None when the text does not start with one.
Digits(text) ==
    CASE text = "0" -> Some(0)
      [] text = "1" -> Some(1)
      [] text = "2" -> Some(2)
      [] text = "3" -> Some(3)
      [] OTHER      -> None

CountLabels ==
    {"Deleted Containers:", "Deleted Images:", "Deleted Volumes:",
     "Deleted Networks:"}

\* /Deleted (?:Containers|Images|Volumes|Networks):\s*([0-9]+)/gi, summed.
RECURSIVE parsePrunedCount(_)
parsePrunedCount(output) ==
    IF output = <<>> THEN 0
    ELSE LET line == Head(output)
             n == IF line.label \in CountLabels /\ Digits(line.value) # None
                  THEN Digits(line.value)[1] ELSE 0
         IN n + parsePrunedCount(Tail(output))

\* /Total reclaimed space:\s*([0-9.]+\s*[A-Za-z]+)/i, first match.
RECURSIVE parseReclaimedBytes(_)
parseReclaimedBytes(output) ==
    IF output = <<>> THEN 0
    ELSE LET line == Head(output) IN
         IF line.label = "Total reclaimed space:" /\ SizeMatch(line.value) # None
         THEN parseDockerSize(line.value)
         ELSE parseReclaimedBytes(Tail(output))

ZeroCounts == [k \in KindSet |-> 0]

NoFailures == [k \in KindSet |-> <<>>]

\* `a || b` on numbers.
OrElse(a, b) == IF a # 0 THEN a ELSE b

useBulkPrune(options) == options.selectedIds = None

\* A cleanResources that ignores the dry-run flag.
CleanNeverShortCircuits(options) == FALSE

\* The early return of cleanResources.
CleanShortCircuits(options) == options.dryRun

\* A loop body that prunes in bulk whether identifiers were selected or not.
CleanCommandAlwaysPrunes(options, type) ==
    Some(dockerPrune(type, filterUntilTimestamp(options.olderThanMs),
                     options.includeAllImages /\ type = "images"))

\* The docker command the loop body issues for `type`, None when it issues
\* none (identifier path with no identifiers for the kind).
CleanCommand(options, type) ==
    LET filterUntil == filterUntilTimestamp(options.olderThanMs) IN
    IF useBulkPrune(options)
    THEN Some(dockerPrune(type, filterUntil,
                          options.includeAllImages /\ type = "images"))
    ELSE IF type = "cache"
         THEN Some(dockerPrune(type, filterUntil, FALSE))
         ELSE LET ids == options.selectedIds[1][type] IN
              IF ids # None /\ Len(ids[1]) > 0
              THEN dockerRemove(type, ids[1])
              ELSE None

\* removed[type] after the command for `type` printed `output`.
RemovedAfter(options, type, call, output) ==
    IF call.cmd \in PruneCmds
    THEN OrElse(parsePrunedCount(output), options.expectedCounts[type])
    ELSE Len(call.ids)

\* The bytes added to reclaimedBytes after the command printed `output`.
BytesAfter(options, type, call, output) ==
    IF call.cmd \in PruneCmds
    THEN parseReclaimedBytes(output)
    ELSE IF options.estimatedBytes # None
         THEN options.estimatedBytes[1][type]
         ELSE 0

\* cleanResources, entry: the result records are created, a dry run
\* returns at once.
CleanEnter ==
    /\ pc = "clean_enter"
    /\ removed' = ZeroCounts
    /\ failures' = NoFailures
    /\ reclaimedBytes' = 0
    /\ cleanIdx' = 1
    /\ cleanCalls' = cleanCalls + 1
    /\ pc' = IF CleanShortCircuits(cleanOpts) THEN "clean_return" ELSE "clean_loop"
    /\ UNCHANGED <<envVars, fnVars, scanVars, runVars, calls, replies, cleanOpts, inflight>>

\* The loop body up to its await: the command for the next kind is issued.
CleanIssue ==
    /\ pc = "clean_loop"
    /\ cleanIdx <= Len(cleanOpts.resources)
    /\ LET type == cleanOpts.resources[cleanIdx]
           cmd  == CleanCommand(cleanOpts, type)
       IN IF cmd = None
          THEN /\ cleanIdx' = cleanIdx + 1
               /\ UNCHANGED <<pc, calls, inflight>>
          ELSE /\ calls' = Append(calls, cmd[1])
               /\ inflight' = cmd
               /\ pc' = "clean_await"
               /\ UNCHANGED cleanIdx
    /\ UNCHANGED <<envVars, fnVars, scanVars, runVars, replies, cleanOpts, removed,
                   failures, reclaimedBytes, cleanCalls>>

\* A loop body that keeps the bytes of the last command instead of adding.
CleanResolveKeepsLast ==
    /\ pc = "clean_await"
    /\ \E format \in docker.pruneFormats :
         LET type   == cleanOpts.resources[cleanIdx]
             call   == inflight[1]
             output == IF call.cmd \in PruneCmds
                       THEN PruneStdout(format, type) ELSE <<>>
         IN /\ removed' = [removed EXCEPT
                             ![type] = RemovedAfter(cleanOpts, type, call, output)]
            /\ reclaimedBytes' = BytesAfter(cleanOpts, type, call, output)
            /\ replies' = Append(replies, Ok(output))
    /\ inflight' = None
    /\ cleanIdx' = cleanIdx + 1
    /\ pc' = "clean_loop"
    /\ UNCHANGED <<envVars, fnVars, scanVars, runVars, calls, cleanOpts, failures,
                   cleanCalls>>

\* The awaited command succeeded and printed its output.
CleanResolve ==
    /\ pc = "clean_await"
    /\ \E format \in docker.pruneFormats :
         LET type   == cleanOpts.resources[cleanIdx]
             call   == inflight[1]
             output == IF call.cmd \in PruneCmds
                       THEN PruneStdout(format, type) ELSE <<>>
         IN /\ removed' = [removed EXCEPT
                             ![type] = RemovedAfter(cleanOpts, type, call, output)]
            /\ reclaimedBytes' =
                 reclaimedBytes + BytesAfter(cleanOpts, type, call, output)
            /\ replies' = Append(replies, Ok(output))
    /\ inflight' = None
    /\ cleanIdx' = cleanIdx + 1
    /\ pc' = "clean_loop"
    /\ UNCHANGED <<envVars, fnVars, scanVars, runVars, calls, cleanOpts, failures,
                   cleanCalls>>

\* A loop without the try/catch around its body: the first failure ends it.
CleanRejectAborts ==
    /\ pc = "clean_await"
    /\ LET type == cleanOpts.resources[cleanIdx] IN
       failures' = [failures EXCEPT ![type] = Append(@, ErrorMessage)]
    /\ replies' = Append(replies, Failed)
    /\ inflight' = None
    /\ cleanIdx' = Len(cleanOpts.resources) + 1
    /\ pc' = "clean_loop"
    /\ UNCHANGED <<envVars, fnVars, scanVars, runVars, calls, cleanOpts, removed,
                   reclaimedBytes, cleanCalls>>

\* A catch block that tries the failed kind once more before it moves on.
CleanRejectRetries ==
    /\ pc = "clean_await"
    /\ LET type == cleanOpts.resources[cleanIdx] IN
       /\ failures' = [failures EXCEPT ![type] = Append(@, ErrorMessage)]
       /\ cleanIdx' = IF failures[type] = <<>> THEN cleanIdx ELSE cleanIdx + 1
    /\ replies' = Append(replies, Failed)
    /\ inflight' = None
    /\ pc' = "clean_loop"
    /\ UNCHANGED <<envVars, fnVars, scanVars, runVars, calls, cleanOpts, removed,
                   reclaimedBytes, cleanCalls>>

\* The awaited command failed: the catch block records the message.
CleanReject ==
    /\ pc = "clean_await"
    /\ LET type == cleanOpts.resources[cleanIdx] IN
       failures' = [failures EXCEPT ![type] = Append(@, ErrorMessage)]
    /\ replies' = Append(replies, Failed)
    /\ inflight' = None
    /\ cleanIdx' = cleanIdx + 1
    /\ pc' = "clean_loop"
    /\ UNCHANGED <<envVars, fnVars, scanVars, runVars, calls, cleanOpts, removed,
                   reclaimedBytes, cleanCalls>>

\* The loop is over: cleanResources returns its result.
CleanLoopEnd ==
    /\ pc = "clean_loop"
    /\ cleanIdx > Len(cleanOpts.resources)
    /\ pc' = "clean_return"
    /\ UNCHANGED <<envVars, fnVars, scanVars, runVars, calls, replies, cleanOpts, cleanIdx,
                   removed, failures, reclaimedBytes, cleanCalls, inflight>>

(***************************************************************************)
(* scan.ts: size selection                                                 *)
(***************************************************************************)
\* Insert `item` into a list sorted by descending size, after the items at
\* least as large (Array.prototype.sort is stable).
RECURSIVE InsertBySize(_, _)
InsertBySize(item, sorted) ==
    IF sorted = <<>> THEN <<item>>
    ELSE IF parseDockerSize(Head(sorted).size) >= parseDockerSize(item.size)
         THEN <<Head(sorted)>> \o InsertBySize(item, Tail(sorted))
         ELSE <<item>> \o sorted

\* A sort that leaves the items in the order given.
sortBySizeSkipped(items) == items

RECURSIVE sortBySize(_)
sortBySize(items) ==
    IF items = <<>> THEN <<>>
    ELSE InsertBySize(items[Len(items)], sortBySize(SubSeq(items, 1, Len(items) - 1)))

\* items.slice(0, n): a negative n counts from the end.
selectTopN(items, n) ==
    LET len == Len(items)
        end == IF n < 0 THEN (IF len + n < 0 THEN 0 ELSE len + n)
               ELSE (IF n < len THEN n ELSE len)
    IN SubSeq(items, 1, end)

\* A loop that tests the limit before it takes the item.
RECURSIVE SelectLoopStopsShort(_, _, _)
SelectLoopStopsShort(items, totalBytes, limitBytes) ==
    IF items = <<>> THEN <<>>
    ELSE LET total == totalBytes + parseDockerSize(Head(items).size) IN
         IF total >= limitBytes THEN <<>>
         ELSE <<Head(items)>> \o SelectLoopStopsShort(Tail(items), total, limitBytes)

RECURSIVE SelectLoop(_, _, _)
SelectLoop(items, totalBytes, limitBytes) ==
    IF items = <<>> THEN <<>>
    ELSE LET total == totalBytes + parseDockerSize(Head(items).size) IN
         IF total >= limitBytes THEN <<Head(items)>>
         ELSE <<Head(items)>> \o SelectLoop(Tail(items), total, limitBytes)

selectUntilSpaceLimit(items, limitBytes) == SelectLoop(items, 0, limitBytes)

\* `!x` on an optional number: undefined or 0.
Falsy(x) == x = None \/ x[1] = 0

applySizeFilters(items, top, limitSpaceBytes) ==
    IF Falsy(top) /\ Falsy(limitSpaceBytes) THEN items
    ELSE LET sorted == sortBySize(items) IN
         IF top # None THEN selectTopN(sorted, top[1])
         ELSE IF limitSpaceBytes # None
              THEN selectUntilSpaceLimit(sorted, limitSpaceBytes[1])
              ELSE sorted

(***************************************************************************)
(* scan.ts: classification                                                 *)
(***************************************************************************)
Item(id, name, size, createdAt) ==
    [id |-> id, name |-> name, size |-> size, createdAt |-> parseCreatedAt(createdAt)]

IsStopped(container) == ToLowerCase(container.State) \in {"exited", "dead"}

\* `${image.Repository}:${image.Tag}`
ImageName(image) ==
    CASE image.Repository = "<none>" /\ image.Tag = "<none>" -> "<none>:<none>"
      [] image.Repository = "nginx" /\ image.Tag = "latest"  -> "nginx:latest"
      [] image.Repository = "nginx" /\ image.Tag = "<none>"  -> "nginx:<none>"
      [] image.Repository = "<none>" /\ image.Tag = "latest" -> "<none>:latest"
      [] OTHER -> ":"

\* A filter that asks for the sentinel in both fields.
KeepsImageBothNone(image, includeAllImages) ==
    includeAllImages \/ (image.Repository = "<none>" /\ image.Tag = "<none>")

KeepsImage(image, includeAllImages) ==
    includeAllImages \/ image.Repository = "<none>" \/ image.Tag = "<none>"

isSystemNetwork(name) == name \in {"bridge", "host", "none"}

RECURSIVE MapContainers(_)
MapContainers(raw) ==
    IF raw = <<>> THEN <<>>
    ELSE LET c == Head(raw) IN
         (IF IsStopped(c) THEN <<Item(c.ID, c.Names, c.Size, c.CreatedAt)>> ELSE <<>>)
         \o MapContainers(Tail(raw))

RECURSIVE MapImages(_, _)
MapImages(raw, includeAllImages) ==
    IF raw = <<>> THEN <<>>
    ELSE LET i == Head(raw) IN
         (IF KeepsImage(i, includeAllImages)
          THEN <<Item(i.ID, ImageName(i), i.Size, i.CreatedAt)>> ELSE <<>>)
         \o MapImages(Tail(raw), includeAllImages)

RECURSIVE MapVolumes(_)
MapVolumes(raw) ==
    IF raw = <<>> THEN <<>>
    ELSE LET v == Head(raw) IN
         <<Item(IF v.Name # "" THEN v.Name ELSE v.Driver, v.Name, "", v.CreatedAt)>>
         \o MapVolumes(Tail(raw))

RECURSIVE MapNetworks(_)
MapNetworks(raw) ==
    IF raw = <<>> THEN <<>>
    ELSE LET n == Head(raw) IN
         (IF ~isSystemNetwork(n.Name)
          THEN <<Item(n.ID, n.Name, "", n.CreatedAt)>> ELSE <<>>)
         \o MapNetworks(Tail(raw))

RECURSIVE SumSizes(_)
SumSizes(items) ==
    IF items = <<>> THEN 0
    ELSE parseDockerSize(Head(items).size) + SumSizes(Tail(items))

Summary(type, label, items, reclaimableBytes) ==
    [type |-> type, label |-> label, items |-> items,
     reclaimableBytes |-> reclaimableBytes]

\* The size selection followed by the age filter.
SelectSizedFirst(items, options) ==
    applyOlderThan(applySizeFilters(items, options.top, options.limitSpaceBytes),
                   options.olderThanMs)

\* The age filter followed by the size selection (containers and images).
SelectSized(items, options) ==
    applySizeFilters(applyOlderThan(items, options.olderThanMs),
                     options.top, options.limitSpaceBytes)

\* A containers section that sums the sizes before the size selection.
ContainersSummaryUnselected(raw, options) ==
    LET aged == applyOlderThan(MapContainers(raw), options.olderThanMs) IN
    Summary("containers", "Stopped containers",
            applySizeFilters(aged, options.top, options.limitSpaceBytes),
            SumSizes(aged))

ContainersSummary(raw, options) ==
    LET filtered == SelectSized(MapContainers(raw), options) IN
    Summary("containers", "Stopped containers", filtered, SumSizes(filtered))

ImagesSummary(raw, options) ==
    LET filtered == SelectSized(MapImages(raw, options.includeAllImages), options) IN
    Summary("images",
            IF options.includeAllImages THEN "Unused images" ELSE "Dangling images",
            filtered, SumSizes(filtered))

\* A volumes section that applies the size selection as well.
VolumesSummarySized(raw, options) ==
    Summary("volumes", "Unused volumes", SelectSized(MapVolumes(raw), options), 0)

VolumesSummary(raw, options) ==
    Summary("volumes", "Unused volumes",
            applyOlderThan(MapVolumes(raw), options.olderThanMs), 0)

NetworksSummary(raw, options) ==
    Summary("networks", "Unused networks",
            applyOlderThan(MapNetworks(raw), options.olderThanMs), 0)

\* /Total reclaimable:\s*([0-9.]+\s*[A-Za-z]+)/i, first match.
RECURSIVE parseReclaimable(_)
parseReclaimable(output) ==
    IF output = <<>> THEN 0
    ELSE LET line == Head(output) IN
         IF line.label = "Total reclaimable:" /\ SizeMatch(line.value) # None
         THEN parseDockerSize(line.value)
         ELSE parseReclaimable(Tail(output))

CacheSummary(output) == Summary("cache", "Builder cache", <<>>, parseReclaimable(output))

\* df.find((row) => row.Reclaimable), parsed; None when no row has one.
RECURSIVE DfReclaimable(_)
DfReclaimable(df) ==
    IF df = <<>> THEN None
    ELSE IF Head(df).Reclaimable # "" THEN Some(parseDockerSize(Head(df).Reclaimable))
         ELSE DfReclaimable(Tail(df))

(***************************************************************************)
(* scan.ts: scanResources                                                  *)
(***************************************************************************)
ListCall(cmd, flags) == Call(cmd, flags, None, <<>>)

\* A rejected promise leaves the operation: run().catch exits with code 4,
\* a direct caller sees the exception.
Throws ==
    /\ pc' = IF entry = "run" THEN "exited" ELSE "thrown"
    /\ exitCode' = IF entry = "run" THEN Some(4) ELSE exitCode

ScanContainers ==
    /\ pc = "scan_containers"
    /\ IF scanOpts.includeContainers
       THEN LET summary == ContainersSummary(docker.containers, scanOpts) IN
            /\ calls' = Append(calls, ListCall("ps -a", {}))
            /\ replies' = Append(replies, Ok(<<>>))
            /\ summaries' = Append(summaries, summary)
            /\ totalReclaimableBytes' = totalReclaimableBytes + summary.reclaimableBytes
       ELSE UNCHANGED <<calls, replies, summaries, totalReclaimableBytes>>
    /\ pc' = "scan_images"
    /\ UNCHANGED <<envVars, fnVars, runVars, scanOpts, scanCalls, cleanOpts, cleanIdx,
                   removed, failures, reclaimedBytes, cleanCalls, inflight>>

ScanImages ==
    /\ pc = "scan_images"
    /\ IF scanOpts.includeImages
       THEN LET summary == ImagesSummary(docker.images, scanOpts) IN
            /\ calls' = Append(calls, ListCall("images", {"--digests"}))
            /\ replies' = Append(replies, Ok(<<>>))
            /\ summaries' = Append(summaries, summary)
            /\ totalReclaimableBytes' = totalReclaimableBytes + summary.reclaimableBytes
       ELSE UNCHANGED <<calls, replies, summaries, totalReclaimableBytes>>
    /\ pc' = "scan_volumes"
    /\ UNCHANGED <<envVars, fnVars, runVars, scanOpts, scanCalls, cleanOpts, cleanIdx,
                   removed, failures, reclaimedBytes, cleanCalls, inflight>>

\* A scan that lists the volumes whether they were asked for or not.
ScanVolumesAlways ==
    /\ pc = "scan_volumes"
    /\ calls' = Append(calls, ListCall("volume ls", {"dangling=true"}))
    /\ replies' = Append(replies, Ok(<<>>))
    /\ summaries' = Append(summaries, VolumesSummary(docker.volumes, scanOpts))
    /\ pc' = "scan_networks"
    /\ UNCHANGED <<envVars, fnVars, runVars, scanOpts, scanCalls, cleanOpts, cleanIdx,
                   removed, failures, reclaimedBytes, cleanCalls, inflight,
                   totalReclaimableBytes>>

ScanVolumes ==
    /\ pc = "scan_volumes"
    /\ IF scanOpts.includeVolumes
       THEN /\ calls' = Append(calls, ListCall("volume ls", {"dangling=true"}))
            /\ replies' = Append(replies, Ok(<<>>))
            /\ summaries' = Append(summaries, VolumesSummary(docker.volumes, scanOpts))
       ELSE UNCHANGED <<calls, replies, summaries>>
    /\ pc' = "scan_networks"
    /\ UNCHANGED <<envVars, fnVars, runVars, scanOpts, scanCalls, cleanOpts, cleanIdx,
                   removed, failures, reclaimedBytes, cleanCalls, inflight,
                   totalReclaimableBytes>>

ScanNetworks ==
    /\ pc = "scan_networks"
    /\ IF scanOpts.includeNetworks
       THEN /\ calls' = Append(calls, ListCall("network ls", {"dangling=true"}))
            /\ replies' = Append(replies, Ok(<<>>))
            /\ summaries' = Append(summaries, NetworksSummary(docker.networks, scanOpts))
       ELSE UNCHANGED <<calls, replies, summaries>>
    /\ pc' = "scan_cache"
    /\ UNCHANGED <<envVars, fnVars, runVars, scanOpts, scanCalls, cleanOpts, cleanIdx,
                   removed, failures, reclaimedBytes, cleanCalls, inflight,
                   totalReclaimableBytes>>

\* dockerBuilderPruneDryRun: the preview, and the real prune when it fails.
DryRunCall(filterUntil) == Call("buildx prune --dry-run", {}, filterUntil, <<>>)

FallbackCall(filterUntil) == Call("builder prune", {"-f"}, filterUntil, <<>>)

\* A cache section that runs the real prune after the preview whether the
\* preview succeeded or not.
ScanCachePrunesAlways ==
    /\ pc = "scan_cache"
    /\ IF scanOpts.includeCache
       THEN LET filterUntil == filterUntilTimestamp(scanOpts.olderThanMs) IN
            \E previewOk \in BOOLEAN, format \in docker.pruneFormats :
              LET output == PruneStdout(format, "cache")
                  summary == CacheSummary(output)
              IN /\ calls' = calls \o <<DryRunCall(filterUntil),
                                        FallbackCall(filterUntil)>>
                 /\ replies' = replies \o
                      <<IF previewOk THEN Ok(docker.cachePreview) ELSE Failed,
                        Ok(output)>>
                 /\ summaries' = Append(summaries, summary)
                 /\ totalReclaimableBytes' =
                      totalReclaimableBytes + summary.reclaimableBytes
       ELSE UNCHANGED <<calls, replies, summaries, totalReclaimableBytes>>
    /\ pc' = "scan_total"
    /\ UNCHANGED <<envVars, fnVars, runVars, scanOpts, scanCalls, cleanOpts, cleanIdx,
                   removed, failures, reclaimedBytes, cleanCalls, inflight>>

\* The cache section; the preview succeeds, or fails and the fallback runs.
ScanCache ==
    /\ pc = "scan_cache"
    /\ IF scanOpts.includeCache
       THEN LET filterUntil == filterUntilTimestamp(scanOpts.olderThanMs) IN
            \E previewOk \in BOOLEAN, format \in docker.pruneFormats :
              LET output == IF previewOk THEN docker.cachePreview
                            ELSE PruneStdout(format, "cache")
                  summary == CacheSummary(output)
              IN /\ calls' = IF previewOk
                             THEN Append(calls, DryRunCall(filterUntil))
                             ELSE calls \o <<DryRunCall(filterUntil),
                                             FallbackCall(filterUntil)>>
                 /\ replies' = IF previewOk
                               THEN Append(replies, Ok(output))
                               ELSE replies \o <<Failed, Ok(output)>>
                 /\ summaries' = Append(summaries, summary)
                 /\ totalReclaimableBytes' =
                      totalReclaimableBytes + summary.reclaimableBytes
       ELSE UNCHANGED <<calls, replies, summaries, totalReclaimableBytes>>
    /\ pc' = "scan_total"
    /\ UNCHANGED <<envVars, fnVars, runVars, scanOpts, scanCalls, cleanOpts, cleanIdx,
                   removed, failures, reclaimedBytes, cleanCalls, inflight>>

\* A scan that queries the disk usage whatever the summaries add up to.
ScanTotalAlwaysQueries ==
    /\ pc = "scan_total"
    /\ calls' = Append(calls, ListCall("system df", {}))
    /\ replies' = Append(replies, Ok(<<>>))
    /\ totalReclaimableBytes' =
         IF DfReclaimable(docker.df) # None
         THEN DfReclaimable(docker.df)[1] ELSE totalReclaimableBytes
    /\ pc' = "scan_return"
    /\ UNCHANGED <<envVars, fnVars, runVars, scanOpts, summaries, scanCalls, cleanOpts,
                   cleanIdx, removed, failures, reclaimedBytes, cleanCalls, inflight>>

\* The disk-usage fallback and the return of scanResources.
ScanTotal ==
    /\ pc = "scan_total"
    /\ IF totalReclaimableBytes = 0
       THEN /\ calls' = Append(calls, ListCall("system df", {}))
            /\ replies' = Append(replies, Ok(<<>>))
            /\ totalReclaimableBytes' =
                 IF DfReclaimable(docker.df) # None
                 THEN DfReclaimable(docker.df)[1] ELSE totalReclaimableBytes
       ELSE UNCHANGED <<calls, replies, totalReclaimableBytes>>
    /\ pc' = "scan_return"
    /\ UNCHANGED <<envVars, fnVars, runVars, scanOpts, summaries, scanCalls, cleanOpts,
                   cleanIdx, removed, failures, reclaimedBytes, cleanCalls, inflight>>

\* The docker commands the scan issues at `at` when the command fails: the
\* listing of an included kind, the preview and its fallback, the df query.
FailingScanCalls(at) ==
    LET filterUntil == filterUntilTimestamp(scanOpts.olderThanMs) IN
    CASE at = "scan_containers" /\ scanOpts.includeContainers
           -> <<ListCall("ps -a", {})>>
      [] at = "scan_images" /\ scanOpts.includeImages
           -> <<ListCall("images", {"--digests"})>>
      [] at = "scan_volumes" /\ scanOpts.includeVolumes
           -> <<ListCall("volume ls", {"dangling=true"})>>
      [] at = "scan_networks" /\ scanOpts.includeNetworks
           -> <<ListCall("network ls", {"dangling=true"})>>
      [] at = "scan_cache" /\ scanOpts.includeCache
           -> <<DryRunCall(filterUntil), FallbackCall(filterUntil)>>
      [] at = "scan_total" /\ totalReclaimableBytes = 0
           -> <<ListCall("system df", {})>>
      [] OTHER -> <<>>

\* A docker command of the scan fails and nothing catches it.
ScanThrows ==
    /\ FailingScanCalls(pc) # <<>>
    /\ calls' = calls \o FailingScanCalls(pc)
    /\ replies' = replies \o [i \in DOMAIN FailingScanCalls(pc) |-> Failed]
    /\ Throws
    /\ UNCHANGED <<envVars, fnVars, parsed, prompt, wouldRun, scanVars, cleanOpts,
                   cleanIdx, removed, failures, reclaimedBytes, cleanCalls, inflight>>

(***************************************************************************)
(* args.ts: parseArgs.  argv is the set of <<flag, value>> pairs given.    *)
(***************************************************************************)
Has(argv, flag) == \E a \in argv : a[1] = flag

ValueOf(argv, flag) == (CHOOSE a \in argv : a[1] = flag)[2]

\* ms(): the duration in milliseconds, None (undefined) when it has no unit
\* the library knows.
Ms(text) ==
    CASE text = "7d" -> Some(7 * Day)
      [] text = "1d" -> Some(Day)
      [] text = "0d" -> Some(0)
      [] text = "5s" -> Some(5 * 1000)
      [] OTHER       -> None

\* /\d\s*s\s*$/i
EndsInSeconds(text) == text \in {"5s"}

CliOptions(argv) ==
    [containers |-> Has(argv, "--containers"),
     images     |-> Has(argv, "--images"),
     volumes    |-> Has(argv, "--volumes"),
     networks   |-> Has(argv, "--networks"),
     cache      |-> Has(argv, "--cache"),
     dangling   |-> Has(argv, "--dangling"),
     all        |-> Has(argv, "--all"),
     force      |-> Has(argv, "--force") \/ Has(argv, "--yes"),
     dryRun     |-> Has(argv, "--dry-run"),
     quiet      |-> Has(argv, "--quiet"),
     verbose    |-> Has(argv, "--verbose"),
     json       |-> Has(argv, "--json")]

\* The message parseArgs throws for the flags of the first release, None
\* when it accepts them.
ArgsError(argv) ==
    IF Has(argv, "--quiet") /\ Has(argv, "--verbose")
    THEN Some("Use either --quiet or --verbose, not both.")
    ELSE IF Has(argv, "--older-than")
            /\ LET text == ValueOf(argv, "--older-than") IN
               text = "" \/ Ms(text) = None \/ EndsInSeconds(text)
         THEN Some("Invalid --older-than value. Use m/h/d/w like 7d or 12h.")
         ELSE None

OlderThanMs(argv) ==
    IF Has(argv, "--older-than") /\ ValueOf(argv, "--older-than") # ""
    THEN Ms(ValueOf(argv, "--older-than")) ELSE None

\* parseSizeString: the strict parser of --limit-space, None when it throws.
parseSizeString(text) ==
    IF SizeMatch(text) = None THEN None ELSE Some(parseDockerSize(text))

\* A parseArgs that accepts --top together with --limit-space.
SizeArgsErrorNoConflict(argv) ==
    IF Has(argv, "--top")
       /\ LET n == Digits(ValueOf(argv, "--top")) IN n = None \/ n[1] <= 0
    THEN Some("Invalid --top value.")
    ELSE IF Has(argv, "--limit-space")
            /\ LET b == parseSizeString(ValueOf(argv, "--limit-space")) IN
               b = None \/ b[1] <= 0
         THEN Some("Invalid --limit-space value.")
         ELSE None

\* The message parseArgs throws for --top and --limit-space.
SizeArgsError(argv) ==
    IF Has(argv, "--top") /\ Has(argv, "--limit-space")
    THEN Some("Use either --limit-space or --top, not both.")
    ELSE IF Has(argv, "--top")
            /\ LET n == Digits(ValueOf(argv, "--top")) IN n = None \/ n[1] <= 0
         THEN Some("Invalid --top value.")
         ELSE IF Has(argv, "--limit-space")
                 /\ LET b == parseSizeString(ValueOf(argv, "--limit-space")) IN
                    b = None \/ b[1] <= 0
              THEN Some("Invalid --limit-space value.")
              ELSE None

TopOf(argv) == IF Has(argv, "--top") THEN Digits(ValueOf(argv, "--top")) ELSE None

LimitSpaceBytes(argv) ==
    IF Has(argv, "--limit-space")
    THEN parseSizeString(ValueOf(argv, "--limit-space")) ELSE None

\* parseArgs: the thrown message, or the options with the parsed values.
parseArgs(argv) ==
    LET error == IF ArgsError(argv) # None THEN ArgsError(argv)
                 ELSE SizeArgsError(argv)
    IN IF error # None
       THEN [error |-> error]
       ELSE [error |-> None,
             options |-> CliOptions(argv),
             top |-> TopOf(argv),
             olderThanMs |-> OlderThanMs(argv),
             limitSpaceBytes |-> LimitSpaceBytes(argv)]

(***************************************************************************)
(* index.ts: run                                                           *)
(***************************************************************************)
resolveResources(options) ==
    IF options.all THEN ResourceType
    ELSE IF options.dangling THEN <<"containers", "images", "volumes">>
    ELSE LET Picked(type) == options[type]
             selected == SelectSeq(ResourceType, Picked)
         IN IF Len(selected) = 0 THEN ResourceType ELSE selected

\* The exit code the process ends with when run() rejects.
RejectedExitCode == 4

\* The exit codes checkDocker reports.
CliMissingCode == 1

DaemonDownCode == 2

Exit(code) ==
    /\ pc' = "exited"
    /\ exitCode' = Some(code)

\* run, first statement: parseArgs(process.argv); a throw rejects run().
RunParseArgs(argv) ==
    /\ pc = "start"
    /\ parsed' = parseArgs(argv)
    /\ IF parseArgs(argv).error # None
       THEN Exit(RejectedExitCode)
       ELSE /\ pc' = "check_version"
            /\ UNCHANGED exitCode
    /\ UNCHANGED <<envVars, fnVars, scanVars, prompt, wouldRun, calls, replies, cleanOpts,
                   cleanIdx, removed, failures, reclaimedBytes, cleanCalls, inflight>>

\* checkDocker: `docker --version`.
CheckVersion ==
    /\ pc = "check_version"
    /\ calls' = Append(calls, ListCall("--version", {}))
    /\ \/ /\ replies' = Append(replies, Ok(<<>>))
          /\ pc' = "check_info"
          /\ UNCHANGED exitCode
       \/ /\ replies' = Append(replies, Failed)
          /\ Exit(CliMissingCode)
    /\ UNCHANGED <<envVars, fnVars, scanVars, parsed, prompt, wouldRun, cleanOpts,
                   cleanIdx, removed, failures, reclaimedBytes, cleanCalls, inflight>>

\* A checkDocker that does not look at how `docker info` ended.
CheckInfoUnchecked ==
    /\ pc = "check_info"
    /\ calls' = Append(calls, ListCall("info", {}))
    /\ \/ replies' = Append(replies, Ok(<<>>))
       \/ replies' = Append(replies, Failed)
    /\ pc' = "scan_enter"
    /\ UNCHANGED <<envVars, fnVars, scanVars, runVars, cleanOpts, cleanIdx, removed,
                   failures, reclaimedBytes, cleanCalls, inflight>>

\* checkDocker: `docker info`.
CheckInfo ==
    /\ pc = "check_info"
    /\ calls' = Append(calls, ListCall("info", {}))
    /\ \/ /\ replies' = Append(replies, Ok(<<>>))
          /\ pc' = "scan_enter"
          /\ UNCHANGED exitCode
       \/ /\ replies' = Append(replies, Failed)
          /\ Exit(DaemonDownCode)
    /\ UNCHANGED <<envVars, fnVars, scanVars, parsed, prompt, wouldRun, cleanOpts,
                   cleanIdx, removed, failures, reclaimedBytes, cleanCalls, inflight>>

\* The ScanOptions run builds.
RunScanOptions(p) ==
    LET resources == resolveResources(p.options) IN
    [includeContainers |-> Includes(resources, "containers"),
     includeImages     |-> Includes(resources, "images"),
     includeVolumes    |-> Includes(resources, "volumes"),
     includeNetworks   |-> Includes(resources, "networks"),
     includeCache      |-> Includes(resources, "cache"),
     includeAllImages  |-> p.options.all,
     olderThanMs       |-> p.olderThanMs,
     top               |-> p.top,
     limitSpaceBytes   |-> p.limitSpaceBytes]

\* run calls scanResources.
RunScan ==
    /\ pc = "scan_enter"
    /\ scanOpts' = RunScanOptions(parsed)
    /\ scanCalls' = scanCalls + 1
    /\ summaries' = <<>>
    /\ totalReclaimableBytes' = 0
    /\ pc' = "scan_containers"
    /\ UNCHANGED <<envVars, fnVars, runVars, calls, replies, cleanOpts, cleanIdx, removed,
                   failures, reclaimedBytes, cleanCalls, inflight>>

RECURSIVE TotalItems(_)
TotalItems(sums) ==
    IF sums = <<>> THEN 0 ELSE Len(Head(sums).items) + TotalItems(Tail(sums))

needsPrompt(options, tty) == ~options.force /\ ~options.dryRun /\ tty

\* confirmProceed: what run receives for the user's response.
confirmProceed(response) ==
    CASE response = "cancel" -> TRUE
      [] response = "yes"    -> TRUE
      [] OTHER               -> FALSE

\* Lines 111-131 of run: what follows the prompt (or its absence).
AfterPrompt(options, tty) ==
    IF ~options.force /\ ~tty /\ ~options.dryRun THEN "noninteractive"
    ELSE IF options.dryRun THEN "dryrun"
    ELSE "clean"

\* A run that does not look at what the scan found before it prompts.
AfterScanUnchecked(options, tty, totalItems, totalBytes) ==
    IF options.json THEN "json"
    ELSE IF needsPrompt(options, tty) THEN "prompt"
    ELSE AfterPrompt(options, tty)

\* A run in which --force goes on to the cleanup before --json is looked at.
AfterScanForceFirst(options, tty, totalItems, totalBytes) ==
    IF options.force /\ ~(totalItems = 0 /\ totalBytes = 0)
    THEN AfterPrompt(options, tty)
    ELSE IF options.json THEN "json"
    ELSE IF totalItems = 0 /\ totalBytes = 0 THEN "nothing"
    ELSE IF needsPrompt(options, tty) THEN "prompt"
    ELSE AfterPrompt(options, tty)

\* Lines 73-109 of run: what follows the scan.
AfterScan(options, tty, totalItems, totalBytes) ==
    IF options.json THEN "json"
    ELSE IF totalItems = 0 /\ totalBytes = 0 THEN "nothing"
    ELSE IF needsPrompt(options, tty) THEN "prompt"
    ELSE AfterPrompt(options, tty)

\* The command a dry run prints for `resource`.
WouldRunCommand(resource, p) ==
    LET filterUntil == filterUntilTimestamp(p.olderThanMs) IN
    IF resource = "cache" THEN DryRunCall(filterUntil)
    ELSE dockerPrune(resource, filterUntil, p.options.all /\ resource = "images")

RECURSIVE ExpectedCounts(_, _)
ExpectedCounts(sums, acc) ==
    IF sums = <<>> THEN acc
    ELSE ExpectedCounts(Tail(sums),
                        [acc EXCEPT ![Head(sums).type] = Len(Head(sums).items)])

\* The CleanOptions run builds.
RunCleanOptions(p, sums) ==
    [resources        |-> resolveResources(p.options),
     olderThanMs      |-> p.olderThanMs,
     dryRun           |-> p.options.dryRun,
     includeAllImages |-> p.options.all,
     expectedCounts   |-> ExpectedCounts(sums, ZeroCounts),
     selectedIds      |-> None,
     estimatedBytes   |-> None]

\* What run does once it knows the step after the scan or the prompt.
Proceed(step) ==
    LET resources == resolveResources(parsed.options) IN
    CASE step = "json" ->
           /\ Exit(IF TotalItems(summaries) = 0 THEN 3 ELSE 0)
           /\ UNCHANGED <<wouldRun, cleanOpts>>
      [] step \in {"nothing", "noninteractive"} ->
           /\ Exit(3)
           /\ UNCHANGED <<wouldRun, cleanOpts>>
      [] step = "prompt" ->
           /\ pc' = "prompt"
           /\ UNCHANGED <<wouldRun, cleanOpts, exitCode>>
      [] step = "dryrun" ->
           /\ wouldRun' = [i \in DOMAIN resources |->
                             WouldRunCommand(resources[i], parsed)]
           /\ Exit(0)
           /\ UNCHANGED cleanOpts
      [] step = "clean" ->
           /\ cleanOpts' = RunCleanOptions(parsed, summaries)
           /\ pc' = "clean_enter"
           /\ UNCHANGED <<wouldRun, exitCode>>

\* run after scanResources returned.
RunAfterScan ==
    /\ entry = "run"
    /\ pc = "scan_return"
    /\ Proceed(AfterScan(parsed.options, isTTY, TotalItems(summaries),
                         totalReclaimableBytes))
    /\ UNCHANGED <<envVars, fnVars, scanVars, parsed, prompt, calls, replies, cleanIdx,
                   removed, failures, reclaimedBytes, cleanCalls, inflight>>

\* The confirmation prompt is answered (or cancelled) by the user.
RunPrompt(response) ==
    /\ pc = "prompt"
    /\ prompt' = response
    /\ IF confirmProceed(response)
       THEN Proceed(AfterPrompt(parsed.options, isTTY))
       ELSE /\ Exit(3)
            /\ UNCHANGED <<wouldRun, cleanOpts>>
    /\ UNCHANGED <<envVars, fnVars, scanVars, parsed, calls, replies, cleanIdx, removed,
                   failures, reclaimedBytes, cleanCalls, inflight>>

\* A report that stops at the first requested kind.
hasFailuresInFirst(p, result) ==
    Len(result[resolveResources(p.options)[1]]) > 0

hasFailures(p, result) ==
    \E i \in DOMAIN resolveResources(p.options) :
       Len(result[resolveResources(p.options)[i]]) > 0

\* A run that starts the cleanup over, once, when a kind failed.
RunReportRetries ==
    /\ entry = "run"
    /\ pc = "clean_return"
    /\ IF hasFailures(parsed, failures) /\ cleanCalls < 2
       THEN /\ pc' = "clean_enter"
            /\ UNCHANGED exitCode
       ELSE Exit(IF hasFailures(parsed, failures) THEN 4 ELSE 0)
    /\ UNCHANGED <<envVars, fnVars, scanVars, parsed, prompt, wouldRun, calls, replies,
                   cleanOpts, cleanIdx, removed, failures, reclaimedBytes,
                   cleanCalls, inflight>>

\* run after cleanResources returned: the report and the exit code.
RunReport ==
    /\ entry = "run"
    /\ pc = "clean_return"
    /\ Exit(IF hasFailures(parsed, failures) THEN 4 ELSE 0)
    /\ UNCHANGED <<envVars, fnVars, scanVars, parsed, prompt, wouldRun, calls, replies,
                   cleanOpts, cleanIdx, removed, failures, reclaimedBytes,
                   cleanCalls, inflight>>

(***************************************************************************)
(* Pure functions called on their own                                      *)
(***************************************************************************)
ApplyOlderThanCall ==
    /\ entry = "applyOlderThan"
    /\ pc = "call"
    /\ fnResult' = Some(applyOlderThan(fnArgs.items, fnArgs.olderThanMs))
    /\ pc' = "returned"
    /\ UNCHANGED <<envVars, scanVars, runVars, fnArgs, calls, replies, cleanOpts, cleanIdx,
                   removed, failures, reclaimedBytes, cleanCalls, inflight>>

ApplySizeFiltersCall ==
    /\ entry = "applySizeFilters"
    /\ pc = "call"
    /\ fnResult' = Some(applySizeFilters(fnArgs.items, fnArgs.top,
                                         fnArgs.limitSpaceBytes))
    /\ pc' = "returned"
    /\ UNCHANGED <<envVars, scanVars, runVars, fnArgs, calls, replies, cleanOpts, cleanIdx,
                   removed, failures, reclaimedBytes, cleanCalls, inflight>>

\* scanResources called on its own with `options`.
ScanResourcesCall(options) ==
    /\ entry = "scanResources"
    /\ pc = "call"
    /\ scanOpts' = options
    /\ scanCalls' = scanCalls + 1
    /\ summaries' = <<>>
    /\ totalReclaimableBytes' = 0
    /\ pc' = "scan_containers"
    /\ UNCHANGED <<envVars, fnVars, runVars, calls, replies, cleanOpts, cleanIdx, removed,
                   failures, reclaimedBytes, cleanCalls, inflight>>

(***************************************************************************)
(* Bounds and inputs                                                       *)
(***************************************************************************)
\* Flags on the command line of a run.
MaxFlags == 2

\* Entries of the kind list handed to cleanResources.
MaxKinds == 2

\* Items handed to a filter called on its own.
MaxItems == 2

Flags ==
    { <<"--containers", "">>, <<"--images", "">>, <<"--volumes", "">>,
      <<"--networks", "">>, <<"--cache", "">>, <<"--dangling", "">>,
      <<"--all", "">>, <<"--force", "">>, <<"--yes", "">>, <<"--dry-run", "">>,
      <<"--json", "">>, <<"--quiet", "">>, <<"--verbose", "">>,
      <<"--older-than", "7d">>, <<"--older-than", "7x">>,
      <<"--older-than", "5s">>, <<"--older-than", "">>,
      <<"--top", "1">>, <<"--top", "0">>, <<"--top", "abc">>,
      <<"--limit-space", "200MB">>, <<"--limit-space", "0B">>,
      <<"--limit-space", "invalid">> }

RECURSIVE ArgvsUpTo(_)
ArgvsUpTo(n) ==
    IF n = 0 THEN {{}}
    ELSE LET smaller == ArgvsUpTo(n - 1) IN
         smaller \cup
         { a \cup {f} : a \in smaller, f \in Flags }

\* Command lines: each flag at most once.
Argvs ==
    { a \in ArgvsUpTo(MaxFlags) :
        \A f \in a, g \in a : f[1] = g[1] => f = g }

AgoIso(days) == Some(ToISOString(DateNow - days * Day))

SampleContainers ==
    << [ID |-> "abc123def456", Names |-> "old-container", State |-> "exited",
        Size |-> "150 MB", CreatedAt |-> AgoIso(10)],
       [ID |-> "xyz789uvw012", Names |-> "recent-container", State |-> "Exited",
        Size |-> "50 MB", CreatedAt |-> AgoIso(2)],
       [ID |-> "running123", Names |-> "active-container", State |-> "running",
        Size |-> "100 MB", CreatedAt |-> AgoIso(2)] >>

SampleImages ==
    << [ID |-> "sha256:aaa111", Repository |-> "<none>", Tag |-> "<none>",
        Size |-> "500MB", CreatedAt |-> AgoIso(10)],
       [ID |-> "sha256:bbb222", Repository |-> "nginx", Tag |-> "latest",
        Size |-> "200MB", CreatedAt |-> AgoIso(7)],
       [ID |-> "sha256:ccc333", Repository |-> "<none>", Tag |-> "<none>",
        Size |-> "300MB", CreatedAt |-> AgoIso(1)] >>

SampleVolumes ==
    << [Name |-> "old-volume", Driver |-> "local", CreatedAt |-> AgoIso(10)],
       [Name |-> "recent-volume", Driver |-> "local", CreatedAt |-> None] >>

SampleNetworks ==
    << [ID |-> "net123", Name |-> "custom-network", CreatedAt |-> AgoIso(2)],
       [ID |-> "net456", Name |-> "bridge", CreatedAt |-> AgoIso(10)] >>

EmptyInventory ==
    [containers |-> <<>>, images |-> <<>>, volumes |-> <<>>, networks |-> <<>>]

SampleInventory ==
    [containers |-> SampleContainers, images |-> SampleImages,
     volumes |-> SampleVolumes, networks |-> SampleNetworks]

createBuilderPruneDryRunResponse(reclaimedSpace) ==
    << Line("Total reclaimable:", reclaimedSpace) >>

World(inventory, cachePreview, df, pruneFormats) ==
    [containers |-> inventory.containers, images |-> inventory.images,
     volumes |-> inventory.volumes, networks |-> inventory.networks,
     cachePreview |-> cachePreview, df |-> df, pruneFormats |-> pruneFormats]

\* The docker installations a run is checked against.
RunWorlds ==
    { World(inventory, createBuilderPruneDryRunResponse(space), df, {"counted"}) :
        inventory \in {EmptyInventory, SampleInventory},
        space \in {"0B", "150 MB"},
        df \in { <<>>, << [Type |-> "Images", Reclaimable |-> "300MB"] >> } }

\* Images with the sentinel in the tag only, in the repository only and in
\* neither field.
MixedImages ==
    << [ID |-> "sha256:ddd444", Repository |-> "nginx", Tag |-> "<none>",
        Size |-> "100MB", CreatedAt |-> AgoIso(2)],
       [ID |-> "sha256:eee555", Repository |-> "<none>", Tag |-> "latest",
        Size |-> "200MB", CreatedAt |-> AgoIso(10)],
       [ID |-> "sha256:bbb222", Repository |-> "nginx", Tag |-> "latest",
        Size |-> "300MB", CreatedAt |-> AgoIso(1)] >>

\* The docker installations a scan called on its own is checked against.
ScanWorlds ==
    RunWorlds \cup
    { World([SampleInventory EXCEPT !.images = MixedImages],
            createBuilderPruneDryRunResponse("0B"), <<>>, {"counted"}) }

\* The docker installation cleanResources is checked against on its own.
CleanWorld ==
    World(EmptyInventory, <<>>, <<>>, {"counted", "zero", "drifted"})

RECURSIVE KindListsUpTo(_)
KindListsUpTo(n) ==
    IF n = 0 THEN {<<>>}
    ELSE LET shorter == KindListsUpTo(n - 1) IN
         shorter \cup
         { Append(l, k) : l \in shorter, k \in KindSet }

\* Kind lists without repetition, as resolveResources builds them.
KindLists ==
    { l \in KindListsUpTo(MaxKinds) :
        \A i \in DOMAIN l, j \in DOMAIN l : l[i] = l[j] => i = j }

SampleCounts ==
    [k \in KindSet |->
       CASE k = "containers" -> 2 [] k = "images" -> 3 [] k = "volumes" -> 1
         [] k = "networks" -> 1 [] OTHER -> 0]

\* The identifier sets and estimates cleanResources is handed.
IdChoices ==
    { [selectedIds |-> None, estimatedBytes |-> None],
      [selectedIds |->
         Some([k \in KindSet \ {"cache"} |->
                 CASE k = "containers" -> Some(<<"abc123def456">>)
                   [] k = "images"     -> Some(<<"sha256:aaa111", "sha256:ccc333">>)
                   [] k = "volumes"    -> Some(<<>>)
                   [] OTHER            -> None]),
       estimatedBytes |->
         Some([k \in KindSet |->
                 CASE k = "containers" -> 150000000
                   [] k = "images"     -> 800000000
                   [] OTHER            -> 0])],
      [selectedIds |->
         Some([k \in KindSet \ {"cache"} |->
                 CASE k = "volumes"    -> Some(<<"old-volume">>)
                   [] k = "networks"   -> Some(<<"net123">>)
                   [] k = "containers" -> Some(<<>>)
                   [] OTHER            -> None]),
       estimatedBytes |-> None] }

CleanInputs ==
    { [resources |-> l, olderThanMs |-> o, dryRun |-> d, includeAllImages |-> a,
       expectedCounts |-> e, selectedIds |-> c.selectedIds,
       estimatedBytes |-> c.estimatedBytes] :
        l \in KindLists, o \in {None, Some(7 * Day)}, d \in BOOLEAN, a \in BOOLEAN,
        e \in {ZeroCounts, SampleCounts}, c \in IdChoices }

\* Items a filter is called with: every shape of createdAt.
AgeItems ==
    { [id |-> "abc", name |-> "container", size |-> "100 MB", createdAt |-> c] :
        c \in { None, Some("not a date"), AgoIso(0), AgoIso(2), AgoIso(7),
                Some(ToISOString(DateNow - 7 * Day - 1)), AgoIso(10) } }

RECURSIVE ItemListsUpTo(_)
ItemListsUpTo(n) ==
    IF n = 0 THEN {<<>>}
    ELSE LET shorter == ItemListsUpTo(n - 1) IN
         shorter \cup { Append(l, i) : l \in shorter, i \in AgeItems }

AgeInputs ==
    { [items |-> l, olderThanMs |-> o] :
        l \in ItemListsUpTo(MaxItems),
        o \in {None, Some(0), Some(Day), Some(7 * Day)} }

\* Items handed to the size selection called on its own.
MaxSized == 3

MB == 1000 * 1000

\* Items the size selection is called with: distinct sizes, two spellings of
\* one size, a size in bytes and an item without a size.
SizedItems ==
    { [id |-> "c1", name |-> "large", size |-> "500MB", createdAt |-> AgoIso(10)],
      [id |-> "c2", name |-> "medium", size |-> "300MB", createdAt |-> AgoIso(2)],
      [id |-> "c3", name |-> "small", size |-> "100 MB", createdAt |-> AgoIso(7)],
      [id |-> "c4", name |-> "small-too", size |-> "100MB", createdAt |-> None],
      [id |-> "c5", name |-> "tiny", size |-> "512B", createdAt |-> AgoIso(1)],
      [id |-> "c6", name |-> "unsized", size |-> "", createdAt |-> AgoIso(2)] }

RECURSIVE SizedListsUpTo(_)
SizedListsUpTo(n) ==
    IF n = 0 THEN {<<>>}
    ELSE LET shorter == SizedListsUpTo(n - 1) IN
         shorter \cup { Append(l, i) : l \in shorter, i \in SizedItems }

SizeInputs ==
    { [items |-> l, top |-> t, limitSpaceBytes |-> b] :
        l \in SizedListsUpTo(MaxSized),
        t \in {None, Some(1), Some(2), Some(5)},
        b \in {None, Some(150 * MB), Some(600 * MB), Some(1600 * MB)} }

\* The options scanResources is called with on its own: every choice of
\* kinds, with and without an age threshold and a size selection.
ScanInputs ==
    { [includeContainers |-> c, includeImages |-> i, includeVolumes |-> v,
       includeNetworks |-> n, includeCache |-> b, includeAllImages |-> a,
       olderThanMs |-> o, top |-> s.top, limitSpaceBytes |-> s.limitSpaceBytes] :
        c \in BOOLEAN, i \in BOOLEAN, v \in BOOLEAN, n \in BOOLEAN, b \in BOOLEAN,
        a \in BOOLEAN, o \in {None, Some(7 * Day)},
        s \in { [top |-> None, limitSpaceBytes |-> None],
                [top |-> Some(1), limitSpaceBytes |-> None],
                [top |-> None, limitSpaceBytes |-> Some(200 * MB)] } }

(***************************************************************************)
(* Specifications                                                          *)
(***************************************************************************)
Idle ==
    /\ parsed = [error |-> None]
    /\ calls = <<>>
    /\ replies = <<>>
    /\ scanOpts = None
    /\ summaries = <<>>
    /\ totalReclaimableBytes = 0
    /\ prompt = "none"
    /\ cleanIdx = 0
    /\ removed = ZeroCounts
    /\ failures = NoFailures
    /\ reclaimedBytes = 0
    /\ cleanCalls = 0
    /\ scanCalls = 0
    /\ inflight = None
    /\ wouldRun = <<>>
    /\ exitCode = None
    /\ fnResult = None

\* A run of the command line tool.
Init ==
    /\ entry = "run"
    /\ pc = "start"
    /\ isTTY \in BOOLEAN
    /\ docker \in RunWorlds
    /\ cleanOpts = None
    /\ fnArgs = None
    /\ Idle

Next ==
    \/ \E argv \in Argvs : RunParseArgs(argv)
    \/ CheckVersion
    \/ CheckInfo
    \/ RunScan
    \/ ScanContainers
    \/ ScanImages
    \/ ScanVolumes
    \/ ScanNetworks
    \/ ScanCache
    \/ ScanTotal
    \/ ScanThrows
    \/ RunAfterScan
    \/ \E response \in {"yes", "no", "cancel"} : RunPrompt(response)
    \/ CleanEnter
    \/ CleanIssue
    \/ CleanResolve
    \/ CleanReject
    \/ CleanLoopEnd
    \/ RunReport

Spec == Init /\ [][Next]_vars

\* cleanResources called on its own with any options.
InitClean ==
    /\ entry = "cleanResources"
    /\ pc = "clean_enter"
    /\ isTTY = FALSE
    /\ docker = CleanWorld
    /\ cleanOpts \in CleanInputs
    /\ fnArgs = None
    /\ Idle

NextClean ==
    \/ CleanEnter
    \/ CleanIssue
    \/ CleanResolve
    \/ CleanReject
    \/ CleanLoopEnd

SpecClean == InitClean /\ [][NextClean]_vars

\* applyOlderThan called on its own.
InitAge ==
    /\ entry = "applyOlderThan"
    /\ pc = "call"
    /\ isTTY = FALSE
    /\ docker = CleanWorld
    /\ cleanOpts = None
    /\ fnArgs \in AgeInputs
    /\ Idle

NextAge == ApplyOlderThanCall

SpecAge == InitAge /\ [][NextAge]_vars

\* applySizeFilters called on its own.
InitSize ==
    /\ entry = "applySizeFilters"
    /\ pc = "call"
    /\ isTTY = FALSE
    /\ docker = CleanWorld
    /\ cleanOpts = None
    /\ fnArgs \in SizeInputs
    /\ Idle

NextSize == ApplySizeFiltersCall

SpecSize == InitSize /\ [][NextSize]_vars

\* scanResources called on its own.
InitScan ==
    /\ entry = "scanResources"
    /\ pc = "call"
    /\ isTTY = FALSE
    /\ docker \in ScanWorlds
    /\ cleanOpts = None
    /\ fnArgs = None
    /\ Idle

NextScan ==
    \/ \E options \in ScanInputs : ScanResourcesCall(options)
    \/ ScanContainers
    \/ ScanImages
    \/ ScanVolumes
    \/ ScanNetworks
    \/ ScanCache
    \/ ScanTotal
    \/ ScanThrows

SpecScan == InitScan /\ [][NextScan]_vars

(***************************************************************************)
(* Properties                                                              *)
(***************************************************************************)
Mutating(call) == call.cmd \in PruneCmds \cup RemoveCmds

MutatingCalls == {i \in DOMAIN calls : Mutating(calls[i])}

\* The kind a prune or removal command acts on.
KindOfCall(call) ==
    CHOOSE t \in KindSet :
        call.cmd = PruneCmd(t) \/ (t # "cache" /\ call.cmd = RemoveCmd(t))

RECURSIVE Flatten(_)
Flatten(optionals) ==
    IF optionals = <<>> THEN <<>> ELSE Head(optionals) \o Flatten(Tail(optionals))

\* The commands a cleanup owes to its kind list, one per kind that needs one.
OwedCommands(options) ==
    Flatten([i \in DOMAIN options.resources |->
               CleanCommand(options, options.resources[i])])

\* C1: cleanResources with dryRun = true returns removed = 0 for all five
\* kinds, no failure for any kind and reclaimedBytes = 0, and issues no prune
\* and no removal, whatever the kind list, the expected counts and the
\* selected identifiers are.
C1_DryRunCleanIsInert ==
    (entry = "cleanResources" /\ cleanOpts.dryRun) =>
        /\ calls = <<>>
        /\ inflight = None
        /\ pc \in {"clean_enter", "clean_return"}
        /\ pc = "clean_return" =>
             /\ \A k \in KindSet : removed[k] = 0 /\ failures[k] = <<>>
             /\ reclaimedBytes = 0

C1_Witness ==
    /\ entry = "cleanResources"
    /\ pc = "clean_return"
    /\ cleanOpts.dryRun
    /\ Len(cleanOpts.resources) >= 2
    /\ Includes(cleanOpts.resources, "images")
    /\ cleanOpts.selectedIds # None
    /\ cleanOpts.expectedCounts = SampleCounts

\* C2: in a cleanup that is not a dry run, a failed command adds its message
\* to the failure list of its own kind only and leaves that kind's removed
\* count at 0; the kinds after it are still processed, each successful one
\* with its own removed count, and the call returns instead of throwing.
C2_FailureStaysWithItsKind ==
    (entry = "cleanResources" /\ ~cleanOpts.dryRun) =>
        /\ pc # "thrown"
        /\ \A i \in DOMAIN replies :
             LET k == KindOfCall(calls[i]) IN
             IF replies[i].ok
             THEN /\ failures[k] = <<>>
                  /\ removed[k] =
                       RemovedAfter(cleanOpts, k, calls[i], replies[i].stdout)
             ELSE /\ failures[k] = <<ErrorMessage>>
                  /\ removed[k] = 0
        /\ \A k \in KindSet :
             failures[k] # <<>> =>
                \E i \in DOMAIN replies : KindOfCall(calls[i]) = k /\ ~replies[i].ok
        /\ pc = "clean_return" =>
             /\ calls = OwedCommands(cleanOpts)
             /\ Len(replies) = Len(calls)

C2_Witness ==
    /\ entry = "cleanResources"
    /\ pc = "clean_return"
    /\ Len(replies) = 2
    /\ ~replies[1].ok
    /\ replies[2].ok
    /\ removed[KindOfCall(calls[2])] > 0
    /\ failures[KindOfCall(calls[1])] # <<>>

\* run() got past parseArgs: the options exist.
Accepted == entry = "run" /\ pc # "start" /\ parsed.error = None

\* C3: in a run without --force/--yes and without --dry-run, cleanResources
\* is invoked only after the prompt was answered with yes; a declined prompt
\* ends the run with exit code 3 and without any cleanup.
C3_CleanOnlyAfterYes ==
    (Accepted /\ ~parsed.options.force /\ ~parsed.options.dryRun) =>
        /\ cleanCalls > 0 => prompt = "yes"
        /\ prompt = "no" =>
             /\ pc = "exited"
             /\ exitCode = Some(3)
             /\ cleanCalls = 0
             /\ cleanOpts = None

\* The cancelled prompt after which the cleanup ran and removed containers.
C3_Witness ==
    /\ Accepted
    /\ ~parsed.options.force
    /\ ~parsed.options.dryRun
    /\ prompt = "cancel"
    /\ pc = "exited"
    /\ cleanCalls = 1
    /\ removed["containers"] > 0

NoSelectionFlag(options) ==
    /\ ~options.all
    /\ ~options.dangling
    /\ \A t \in KindSet : ~options[t]

\* C4: a run with no resource-selection flag is scan-only: no prune and no
\* removal command is issued on any path through it.
C4_PlainRunIsScanOnly ==
    (Accepted /\ NoSelectionFlag(parsed.options)) => MutatingCalls = {}

\* A plain, confirmed run that ended after pruning all five kinds.
C4_Witness ==
    /\ Accepted
    /\ NoSelectionFlag(parsed.options)
    /\ prompt = "yes"
    /\ pc = "exited"
    /\ \A t \in KindSet : \E i \in DOMAIN calls : calls[i].cmd = PruneCmd(t)
    /\ exitCode = Some(0)

\* C5: a run with --dry-run executes no mutating docker command, during the
\* scan or after it, does not invoke cleanResources, and ends with exit code
\* 0 once it has printed the commands it would run.
C5_DryRunRemovesNothing ==
    (Accepted /\ parsed.options.dryRun) =>
        /\ MutatingCalls = {}
        /\ cleanCalls = 0
        /\ wouldRun # <<>> => (pc = "exited" /\ exitCode = Some(0))

\* A dry run that printed its commands after its scan had pruned the cache.
C5_Witness ==
    /\ Accepted
    /\ parsed.options.dryRun
    /\ pc = "exited"
    /\ exitCode = Some(0)
    /\ wouldRun # <<>>
    /\ cleanCalls = 0
    /\ \E i \in DOMAIN replies :
          /\ calls[i].cmd = "builder prune"
          /\ "-f" \in calls[i].flags
          /\ replies[i].ok

SizeSelection(p) == p.top # None \/ p.limitSpaceBytes # None

\* C6: after a scan narrowed by --top or --limit-space, the cleanup receives
\* the identifiers the scan selected and, for containers and images, removes
\* by identifier: no bulk prune of containers or images is issued.
C6_CleanupRemovesOnlySelected ==
    (Accepted /\ SizeSelection(parsed) /\ cleanCalls > 0) =>
        /\ cleanOpts.selectedIds # None
        /\ \A i \in DOMAIN calls :
              calls[i].cmd \notin {PruneCmd("containers"), PruneCmd("images")}

\* --top 1 kept one of two dangling images and the cleanup pruned all images.
C6_Witness ==
    /\ Accepted
    /\ parsed.top = Some(1)
    /\ cleanCalls = 1
    /\ cleanOpts.selectedIds = None
    /\ Len(MapImages(docker.images, FALSE)) = 2
    /\ \E i \in DOMAIN summaries :
          summaries[i].type = "images" /\ Len(summaries[i].items) = 1
    /\ \E i \in DOMAIN replies : calls[i].cmd = PruneCmd("images") /\ replies[i].ok

\* The instant an item was created; None when it has none that parses.
CreatedMs(item) ==
    IF item.createdAt = None THEN None ELSE DateParse(item.createdAt[1])

\* C7: with --older-than, every item of every scan summary was created
\* earlier than now minus the threshold.
C7_OnlyOlderItemsSelected ==
    (Accepted /\ ~NoThreshold(parsed.olderThanMs)) =>
        \A i \in DOMAIN summaries :
           \A j \in DOMAIN summaries[i].items :
              LET created == CreatedMs(summaries[i].items[j]) IN
              /\ created # None
              /\ created[1] < DateNow - parsed.olderThanMs[1]

\* --older-than 7d with a container of two days ago in the summary and the
\* one of ten days ago left out.
C7_Witness ==
    /\ Accepted
    /\ parsed.olderThanMs = Some(7 * Day)
    /\ pc = "scan_return"
    /\ \E i \in DOMAIN summaries :
          /\ summaries[i].type = "containers"
          /\ \E j \in DOMAIN summaries[i].items :
                summaries[i].items[j].createdAt = AgoIso(2)
          /\ \A j \in DOMAIN summaries[i].items :
                summaries[i].items[j].createdAt # AgoIso(10)

\* The items of `items` at the positions the predicate holds for, in order.
RECURSIVE Kept(_, _, _)
Kept(items, cutoff, i) ==
    IF i > Len(items) THEN <<>>
    ELSE LET created == CreatedMs(items[i]) IN
         (IF created # None /\ created[1] >= cutoff THEN <<items[i]>> ELSE <<>>)
            \o Kept(items, cutoff, i + 1)

C9_EnvironmentErrorsBeforeScan ==
    entry = "run" =>
        /\ Len(calls) >= 1 => calls[1] = ListCall("--version", {})
        /\ Len(calls) >= 2 => calls[2] = ListCall("info", {})
        /\ (Len(replies) >= 1 /\ ~replies[1].ok) =>
              /\ pc = "exited"
              /\ exitCode = Some(1)
              /\ Len(calls) = 1
              /\ scanCalls = 0
              /\ cleanCalls = 0
        /\ (Len(replies) >= 2 /\ ~replies[2].ok) =>
              /\ pc = "exited"
              /\ exitCode = Some(2)
              /\ Len(calls) = 2
              /\ scanCalls = 0
              /\ cleanCalls = 0

\* The daemon is down: the run ended with code 2 after exactly two calls.
C9_Witness ==
    /\ entry = "run"
    /\ pc = "exited"
    /\ exitCode = Some(2)
    /\ Len(calls) = 2
    /\ replies[1].ok
    /\ ~replies[2].ok

\* C10: a command line parseArgs rejects ends the process with exit code 5
\* before any docker command is issued.
C10_InvalidArgumentsExitFive ==
    (entry = "run" /\ pc # "start" /\ parsed.error # None) =>
        /\ calls = <<>>
        /\ pc = "exited"
        /\ exitCode = Some(5)

\* --quiet with --verbose: rejected without a call, the process exits 4.
C10_Witness ==
    /\ entry = "run"
    /\ pc = "exited"
    /\ parsed.error = Some("Use either --quiet or --verbose, not both.")
    /\ calls = <<>>
    /\ exitCode = Some(RejectedExitCode)

\* The kinds a run asked for.
Requested == Range(resolveResources(parsed.options))

\* C11: a run that went through a cleanup pass ends with exit code 4 exactly
\* when some requested kind has a non-empty failure list, whichever position
\* that kind has in the list, and with exit code 0 otherwise.
C11_ExitFourIffSomeKindFailed ==
    (Accepted /\ pc = "exited" /\ cleanCalls > 0) =>
        exitCode = IF \E k \in Requested : failures[k] # <<>>
                   THEN Some(4) ELSE Some(0)

\* The first requested kind was cleaned, a later one failed: exit code 4.
C11_Witness ==
    /\ Accepted
    /\ pc = "exited"
    /\ cleanCalls = 1
    /\ exitCode = Some(4)
    /\ Len(resolveResources(parsed.options)) >= 2
    /\ failures[resolveResources(parsed.options)[1]] = <<>>
    /\ removed[resolveResources(parsed.options)[1]] > 0
    /\ \E k \in Requested : failures[k] # <<>>

\* C12: a run that ends with exit code 3 has not invoked cleanResources; and
\* once the scan has returned zero items and zero reclaimable bytes, the
\* next step of the run is to end with exit code 3, the prompt never shown.
C12_ExitThreeMeansNoCleanup ==
    /\ []((entry = "run" /\ pc = "exited" /\ exitCode = Some(3)) =>
            (cleanCalls = 0 /\ cleanOpts = None))
    /\ [][(pc = "scan_return" /\ TotalItems(summaries) = 0
              /\ totalReclaimableBytes = 0) =>
            (pc' = "exited" /\ exitCode' = Some(3) /\ prompt' = "none"
               /\ cleanCalls' = 0)]_vars

\* An interactive run without --force and --json whose scan found nothing:
\* it ended with exit code 3 and the prompt was not shown.
C12_Witness ==
    /\ Accepted
    /\ pc = "exited"
    /\ exitCode = Some(3)
    /\ isTTY
    /\ ~parsed.options.force
    /\ ~parsed.options.dryRun
    /\ ~parsed.options.json
    /\ Len(summaries) = 5
    /\ TotalItems(summaries) = 0
    /\ totalReclaimableBytes = 0
    /\ prompt = "none"
    /\ cleanCalls = 0

\* C13: parseArgs rejects every command line that carries both --top and
\* --limit-space; a rejected run issues no docker command and starts no
\* scan; and the options of a scan never carry both a top and a limit.
C13_TopAndLimitExclusive ==
    /\ pc = "start" =>
         \A argv \in Argvs :
            (Has(argv, "--top") /\ Has(argv, "--limit-space")) =>
               parseArgs(argv).error # None
    /\ (entry = "run" /\ pc # "start" /\ parsed.error # None) =>
         (pc = "exited" /\ calls = <<>> /\ scanCalls = 0 /\ scanOpts = None)
    /\ scanOpts # None =>
         ~(scanOpts.top # None /\ scanOpts.limitSpaceBytes # None)

\* The run given valid --top and --limit-space values, rejected for the pair.
C13_Witness ==
    /\ entry = "run"
    /\ pc = "exited"
    /\ parsed.error = Some("Use either --limit-space or --top, not both.")
    /\ calls = <<>>
    /\ scanCalls = 0

\* How many times `x` occurs in `s`.
Occurrences(s, x) == Cardinality({i \in DOMAIN s : s[i] = x})

\* The result holds no item more often than the input does.
TakenFrom(result, items) ==
    \A i \in DOMAIN result :
       Occurrences(result, result[i]) <= Occurrences(items, result[i])

SortedDescending(s) ==
    \A i, j \in DOMAIN s :
       i < j => parseDockerSize(s[i].size) >= parseDockerSize(s[j].size)

Min(a, b) == IF a < b THEN a ELSE b

\* C14: applySizeFilters with top = N >= 1 returns min(N, input length)
\* items of the input, in descending order of parsed size, and no input
\* item left out is larger than an item returned.
C14_TopNSelection ==
    (entry = "applySizeFilters" /\ pc = "returned"
       /\ fnArgs.top # None /\ fnArgs.top[1] >= 1) =>
        LET items  == fnArgs.items
            result == fnResult[1]
        IN /\ Len(result) = Min(fnArgs.top[1], Len(items))
           /\ TakenFrom(result, items)
           /\ SortedDescending(result)
           /\ \A i \in DOMAIN items :
                 Occurrences(result, items[i]) < Occurrences(items, items[i]) =>
                    \A j \in DOMAIN result :
                       parseDockerSize(result[j].size)
                          >= parseDockerSize(items[i].size)

\* Top 2 of three items given smallest first: the two larger ones, largest
\* first, are returned.
C14_Witness ==
    /\ entry = "applySizeFilters"
    /\ pc = "returned"
    /\ fnArgs.top = Some(2)
    /\ fnArgs.limitSpaceBytes = None
    /\ Len(fnArgs.items) = 3
    /\ fnArgs.items[1].size = "100 MB"
    /\ fnArgs.items[2].size = "300MB"
    /\ fnArgs.items[3].size = "500MB"
    /\ fnResult = Some(<<fnArgs.items[3], fnArgs.items[2]>>)

\* C15: applySizeFilters with a positive limit and no top returns a prefix
\* of the input sorted descending by parsed size: the whole of it when the
\* sizes of all items sum to less than the limit, otherwise the shortest
\* prefix whose sizes sum to at least the limit (the item that reaches the
\* limit is its last one).
C15_CumulativeLimitSelection ==
    (entry = "applySizeFilters" /\ pc = "returned" /\ fnArgs.top = None
       /\ fnArgs.limitSpaceBytes # None /\ fnArgs.limitSpaceBytes[1] > 0) =>
        LET items  == fnArgs.items
            limit  == fnArgs.limitSpaceBytes[1]
            result == fnResult[1]
            k      == Len(result)
            sorted == sortBySize(items)
        IN /\ k <= Len(sorted)
           /\ result = SubSeq(sorted, 1, k)
           /\ SortedDescending(sorted)
           /\ TakenFrom(sorted, items)
           /\ Len(sorted) = Len(items)
           /\ IF SumSizes(items) < limit
              THEN k = Len(items)
              ELSE /\ k >= 1
                   /\ SumSizes(result) >= limit
                   /\ SumSizes(SubSeq(result, 1, k - 1)) < limit

\* A limit of 600 MB over items of 300, 500 and 100 MB: the items of 500
\* and 300 MB are returned, the one of 100 MB is not.
C15_Witness ==
    /\ entry = "applySizeFilters"
    /\ pc = "returned"
    /\ fnArgs.top = None
    /\ fnArgs.limitSpaceBytes = Some(600 * MB)
    /\ Len(fnArgs.items) = 3
    /\ fnArgs.items[1].size = "300MB"
    /\ fnArgs.items[2].size = "500MB"
    /\ fnArgs.items[3].size = "100 MB"
    /\ fnResult = Some(<<fnArgs.items[2], fnArgs.items[1]>>)

\* Whether the scan options ask for `type`.
Included(options, type) ==
    CASE type = "containers" -> options.includeContainers
      [] type = "images"     -> options.includeImages
      [] type = "volumes"    -> options.includeVolumes
      [] type = "networks"   -> options.includeNetworks
      [] type = "cache"      -> options.includeCache

\* The kinds the scan options ask for, in the fixed order.
IncludedKinds(options) ==
    LET Asked(type) == Included(options, type) IN SelectSeq(ResourceType, Asked)

KindsOf(sums) == [i \in DOMAIN sums |-> sums[i].type]

\* The docker commands that read the inventory of `type`.
InventoryCmds(type) ==
    CASE type = "containers" -> {"ps -a"}
      [] type = "images"     -> {"images"}
      [] type = "volumes"    -> {"volume ls"}
      [] type = "networks"   -> {"network ls"}
      [] type = "cache"      -> {"buildx prune --dry-run", "builder prune"}

\* C16: scanResources returns one summary for each kind its options ask
\* for and none for another kind, in the order containers, images, volumes,
\* networks, cache; and it issues no inventory command for a kind its
\* options do not ask for.
C16_OneSummaryPerRequestedKind ==
    (entry = "scanResources" /\ scanOpts # None) =>
        /\ pc = "scan_return" => KindsOf(summaries) = IncludedKinds(scanOpts)
        /\ \A i \in DOMAIN calls : \A t \in KindSet :
              calls[i].cmd \in InventoryCmds(t) => Included(scanOpts, t)
        /\ \A i \in DOMAIN summaries : Included(scanOpts, summaries[i].type)

\* Images and networks asked for: two summaries, in that order, and two
\* listing commands.
C16_Witness ==
    /\ entry = "scanResources"
    /\ pc = "scan_return"
    /\ IncludedKinds(scanOpts) = <<"images", "networks">>
    /\ KindsOf(summaries) = <<"images", "networks">>
    /\ Len(summaries[1].items) > 0
    /\ Len(calls) = 2

\* The sum of the reclaimableBytes of the summaries.
SummedBytes(sums) == SumSeq([i \in DOMAIN sums |-> sums[i].reclaimableBytes])

DfQueries == {i \in DOMAIN calls : calls[i].cmd = "system df"}

\* The figure of the first disk-usage row that reports one, 0 without one.
DfFigure(df) ==
    IF \E i \in DOMAIN df : df[i].Reclaimable # ""
    THEN LET first == CHOOSE i \in DOMAIN df :
                         /\ df[i].Reclaimable # ""
                         /\ \A j \in 1..(i - 1) : df[j].Reclaimable = ""
         IN parseDockerSize(df[first].Reclaimable)
    ELSE 0

\* C17: a scan that returns with summaries adding up to a non-zero sum
\* returns that sum as totalReclaimableBytes and has not queried the disk
\* usage; when they add up to 0 it has queried the disk usage once, as its
\* last command, and returns the figure reported there (0 when none is);
\* the query leaves the summaries as they were.
C17_TotalIsSumOrDiskUsage ==
    /\ []((entry = "scanResources" /\ pc = "scan_return") =>
            IF SummedBytes(summaries) # 0
            THEN /\ totalReclaimableBytes = SummedBytes(summaries)
                 /\ DfQueries = {}
            ELSE /\ DfQueries = {Len(calls)}
                 /\ totalReclaimableBytes = DfFigure(docker.df))
    /\ []((entry = "scanResources" /\ pc \notin {"scan_return", "thrown"}) =>
            DfQueries = {})
    /\ [][pc = "scan_total" => summaries' = summaries]_vars

\* All five kinds scanned, nothing reclaimable in any summary, and the total
\* taken from the disk usage.
C17_Witness ==
    /\ entry = "scanResources"
    /\ pc = "scan_return"
    /\ Len(summaries) = 5
    /\ SummedBytes(summaries) = 0
    /\ DfQueries # {}
    /\ totalReclaimableBytes = 300 * MB

\* The positions of the "Deleted <Kind>: N" lines of a prune's output.
CountLines(output) ==
    {j \in DOMAIN output :
        output[j].label \in CountLabels /\ Digits(output[j].value) # None}

\* The N of the first count line.
CountLineN(output) ==
    LET first == CHOOSE j \in CountLines(output) :
                    \A l \in CountLines(output) : j <= l
    IN Digits(output[first].value)[1]

\* C18: on the bulk path, a kind whose prune succeeded has removed = N when
\* the output carries a "Deleted <Kind>: N" line, and the expected count of
\* the scan only when the output carries no such line.
C18_CountLineGivesRemoved ==
    (entry = "cleanResources" /\ ~cleanOpts.dryRun /\ useBulkPrune(cleanOpts)) =>
        \A i \in DOMAIN replies :
           replies[i].ok =>
              LET k      == KindOfCall(calls[i])
                  output == replies[i].stdout
              IN removed[k] = IF CountLines(output) # {}
                              THEN CountLineN(output)
                              ELSE cleanOpts.expectedCounts[k]

\* The prune printed "Deleted Containers: 0" and the result reports the two
\* containers the scan expected.
C18_Witness ==
    /\ entry = "cleanResources"
    /\ pc = "clean_return"
    /\ useBulkPrune(cleanOpts)
    /\ cleanOpts.resources = <<"containers">>
    /\ cleanOpts.expectedCounts["containers"] = 2
    /\ Len(replies) = 1
    /\ replies[1] = Ok(createPruneResponse("containers", "0", "0B"))
    /\ removed["containers"] = 2

\* The identifiers selected for `type`: none when the list is absent.
SelectedFor(options, type) ==
    IF options.selectedIds[1][type] = None THEN <<>>
    ELSE options.selectedIds[1][type][1]

\* The kinds of the list that owe a command on the identifier path.
IdPathKinds(options) ==
    LET Owes(type) == type = "cache" \/ SelectedFor(options, type) # <<>>
    IN SelectSeq(options.resources, Owes)

\* What the answered commands 1..n of the identifier path contribute to
\* reclaimedBytes.
RECURSIVE IdPathBytes(_)
IdPathBytes(n) ==
    IF n = 0 THEN 0
    ELSE IdPathBytes(n - 1)
         + (IF ~replies[n].ok THEN 0
            ELSE IF calls[n].cmd = PruneCmd("cache")
                 THEN parseReclaimedBytes(replies[n].stdout)
                 ELSE IF cleanOpts.estimatedBytes = None THEN 0
                      ELSE cleanOpts.estimatedBytes[1][KindOfCall(calls[n])])

\* C19: a cleanup given selected identifiers (not a dry run) issues, for
\* each listed kind other than cache, one removal naming exactly that
\* kind's identifiers, and nothing when the kind has no identifiers; cache
\* goes through the bulk prune; a successful removal sets removed to the
\* number of identifiers and adds the kind's estimate from the scan (0
\* without estimates) to reclaimedBytes.
C19_IdentifierPath ==
    (entry = "cleanResources" /\ ~cleanOpts.dryRun /\ cleanOpts.selectedIds # None) =>
        /\ \A i \in DOMAIN calls :
              LET k == KindOfCall(calls[i]) IN
              IF k = "cache"
              THEN calls[i].cmd = PruneCmd("cache") /\ calls[i].ids = <<>>
              ELSE /\ calls[i].cmd = RemoveCmd(k)
                   /\ calls[i].ids = SelectedFor(cleanOpts, k)
                   /\ calls[i].ids # <<>>
        /\ \A i \in DOMAIN replies :
              LET k == KindOfCall(calls[i]) IN
              (replies[i].ok /\ k # "cache") => removed[k] = Len(calls[i].ids)
        /\ reclaimedBytes = IdPathBytes(Len(replies))
        /\ pc = "clean_return" =>
              /\ [i \in DOMAIN calls |-> KindOfCall(calls[i])] = IdPathKinds(cleanOpts)
              /\ \A k \in KindSet \ {"cache"} :
                    SelectedFor(cleanOpts, k) = <<>> => removed[k] = 0

\* Images then containers with identifiers and estimates: two removals
\* succeeded, counts 2 and 1, bytes from the estimates.
C19_Witness ==
    /\ entry = "cleanResources"
    /\ pc = "clean_return"
    /\ cleanOpts.selectedIds # None
    /\ cleanOpts.estimatedBytes # None
    /\ cleanOpts.resources = <<"images", "containers">>
    /\ Len(replies) = 2
    /\ replies[1].ok
    /\ replies[2].ok
    /\ calls[1].cmd = "image rm"
    /\ calls[1].ids = <<"sha256:aaa111", "sha256:ccc333">>
    /\ removed["images"] = 2
    /\ removed["containers"] = 1
    /\ reclaimedBytes = 950 * MB

\* The items the age filter retains, in their order.
AgeFiltered(items, olderThanMs) ==
    IF NoThreshold(olderThanMs) THEN items
    ELSE Kept(items, DateNow - olderThanMs[1], 1)

\* The scan options without their size selection.
Unsized(options) == [options EXCEPT !.top = None, !.limitSpaceBytes = None]

\* C20: whatever top or limit the scan options carry, the volumes summary
\* holds the volumes the provider listed, and the networks summary the
\* non-system networks it listed, age-filtered and in provider order: the
\* summaries a scan without size selection builds.
C20_SizeSelectionSparesVolumesAndNetworks ==
    (entry = "scanResources" /\ scanOpts # None) =>
        \A i \in DOMAIN summaries :
           /\ summaries[i].type = "volumes" =>
                /\ summaries[i].items =
                     AgeFiltered(MapVolumes(docker.volumes), scanOpts.olderThanMs)
                /\ summaries[i] = VolumesSummary(docker.volumes, Unsized(scanOpts))
           /\ summaries[i].type = "networks" =>
                /\ summaries[i].items =
                     AgeFiltered(MapNetworks(docker.networks), scanOpts.olderThanMs)
                /\ summaries[i] = NetworksSummary(docker.networks, Unsized(scanOpts))

\* --top 1 cut the containers to one item and left both volumes listed.
C20_Witness ==
    /\ entry = "scanResources"
    /\ pc = "scan_return"
    /\ scanOpts.top = Some(1)
    /\ scanOpts.olderThanMs = None
    /\ IncludedKinds(scanOpts) = <<"containers", "volumes", "networks">>
    /\ Len(MapContainers(docker.containers)) = 2
    /\ Len(summaries[1].items) = 1
    /\ Len(summaries[2].items) = 2
    /\ Len(summaries[3].items) = 1

\* The positions of a run inside scanResources, before it has returned.
ScanPositions ==
    {"scan_containers", "scan_images", "scan_volumes", "scan_networks",
     "scan_cache", "scan_total"}

\* The positions of a run inside cleanResources.
CleanPositions == {"clean_loop", "clean_await", "clean_return"}

\* The listing, preview and disk-usage commands of a scan.
ScanCmds ==
    {"ps -a", "images", "volume ls", "network ls", "buildx prune --dry-run",
     "system df"}

\* C21: a run invokes scanResources at most once and cleanResources at most
\* once; cleanResources is invoked only after the one scan has returned all
\* its summaries, and once it is invoked no scan starts and no scan command
\* is issued any more.
C21_OneScanThenAtMostOneCleanup ==
    /\ [](entry = "run" =>
            /\ scanCalls \in {0, 1}
            /\ cleanCalls \in {0, 1}
            /\ (pc \in ScanPositions \cup {"scan_return"}) =>
                  (scanCalls = 1 /\ cleanCalls = 0 /\ cleanOpts = None)
            /\ (pc \in CleanPositions \cup {"clean_enter"} \/ cleanCalls = 1) =>
                  /\ scanCalls = 1
                  /\ KindsOf(summaries) = resolveResources(parsed.options)
                  /\ pc \in CleanPositions \cup {"clean_enter", "exited"})
    /\ [][(entry = "run" /\ cleanCalls' # cleanCalls) =>
            (cleanCalls = 0 /\ cleanCalls' = 1 /\ scanCalls = 1
               /\ pc = "clean_enter")]_vars
    /\ [][(entry = "run" /\ scanCalls' # scanCalls) =>
            (scanCalls = 0 /\ scanCalls' = 1 /\ cleanCalls = 0
               /\ cleanOpts = None /\ pc = "scan_enter")]_vars
    /\ [][(entry = "run" /\ (cleanCalls > 0 \/ pc = "clean_enter")
             /\ calls' # calls) =>
            (Len(calls') = Len(calls) + 1
               /\ calls'[Len(calls')].cmd \in PruneCmds)]_vars

\* A run that scanned two kinds, was confirmed, cleaned both and ended: one
\* scan, one cleanup, the prunes after the listings.
C21_Witness ==
    /\ Accepted
    /\ pc = "exited"
    /\ scanCalls = 1
    /\ cleanCalls = 1
    /\ prompt = "yes"
    /\ Len(summaries) = 2
    /\ Len(calls) = 6
    /\ calls[3].cmd \in ScanCmds
    /\ calls[4].cmd \in ScanCmds
    /\ calls[5].cmd \in PruneCmds
    /\ calls[6].cmd \in PruneCmds

\* The kinds of the commands issued so far, in the order issued.
CalledKinds == [i \in DOMAIN calls |-> KindOfCall(calls[i])]

\* The position of `type` in the kind list.
PositionOf(resources, type) == CHOOSE i \in DOMAIN resources : resources[i] = type

\* C22: cleanResources works through its kind list in order, one blocking
\* command at a time: a command is issued only when every earlier one has
\* returned or failed, so at most one is in flight; the commands follow the
\* order of the list; and no list entry gets a second command, a failed one
\* included.
C22_SequentialNoRetry ==
    /\ [](entry = "cleanResources" =>
            /\ Len(inflight) <= 1
            /\ Len(calls) - Len(replies) = Len(inflight)
            /\ inflight # None => (pc = "clean_await" /\ inflight[1] = calls[Len(calls)])
            /\ \A i \in DOMAIN calls :
                  /\ Mutating(calls[i])
                  /\ Includes(cleanOpts.resources, CalledKinds[i])
            /\ \A i, j \in DOMAIN calls :
                  i < j => PositionOf(cleanOpts.resources, CalledKinds[i])
                             < PositionOf(cleanOpts.resources, CalledKinds[j])
            /\ Len(calls) <= Len(cleanOpts.resources)
            /\ useBulkPrune(cleanOpts) =>
                  CalledKinds = SubSeq(cleanOpts.resources, 1, Len(calls)))
    /\ [][(entry = "cleanResources" /\ calls' # calls) =>
            (/\ inflight = None
             /\ Len(replies) = Len(calls)
             /\ calls' = Append(calls, inflight'[1]))]_vars
    /\ [][(entry = "cleanResources" /\ replies' # replies) =>
            (/\ inflight # None
             /\ inflight' = None
             /\ calls' = calls
             /\ Len(replies') = Len(calls))]_vars

\* Two kinds on the bulk path: the first prune failed, the second was issued
\* after it and succeeded; two commands in all, in list order.
C22_Witness ==
    /\ entry = "cleanResources"
    /\ pc = "clean_return"
    /\ useBulkPrune(cleanOpts)
    /\ cleanOpts.resources = <<"volumes", "containers">>
    /\ CalledKinds = <<"volumes", "containers">>
    /\ replies[1] = Failed
    /\ replies[2].ok
    /\ failures["volumes"] = <<ErrorMessage>>

\* The positions of the "Total reclaimed space: <size>" lines of an output.
ReclaimedLines(output) ==
    {j \in DOMAIN output :
        output[j].label = "Total reclaimed space:" /\ SizeMatch(output[j].value) # None}

\* The bytes of the first such line, 0 when the output has none.
ReclaimedLineBytes(output) ==
    IF ReclaimedLines(output) = {} THEN 0
    ELSE LET first == CHOOSE j \in ReclaimedLines(output) :
                         \A l \in ReclaimedLines(output) : j <= l
         IN parseDockerSize(output[first].value)

\* C23: on the bulk path, reclaimedBytes is the sum, over the prunes that
\* succeeded, of the size on the "Total reclaimed space:" line of their
\* output, 0 for an output without the line; a failed prune adds nothing.
C23_BulkBytesAreSummed ==
    (entry = "cleanResources" /\ ~cleanOpts.dryRun /\ useBulkPrune(cleanOpts)) =>
        reclaimedBytes =
           SumSeq([i \in DOMAIN replies |->
                     IF replies[i].ok THEN ReclaimedLineBytes(replies[i].stdout)
                     ELSE 0])

\* Two prunes that each reported 100 MB: 200 MB reclaimed.
C23_Witness ==
    /\ entry = "cleanResources"
    /\ pc = "clean_return"
    /\ useBulkPrune(cleanOpts)
    /\ Len(replies) = 2
    /\ replies[1] = Ok(createPruneResponse(cleanOpts.resources[1], "2", "100 MB"))
    /\ replies[2] = Ok(createPruneResponse(cleanOpts.resources[2], "2", "100 MB"))
    /\ reclaimedBytes = 200 * MB

\* The positions of the "Total reclaimable: <size>" lines of an output.
ReclaimableLines(output) ==
    {j \in DOMAIN output :
        output[j].label = "Total reclaimable:" /\ SizeMatch(output[j].value) # None}

\* The bytes of the first such line, 0 when the output has none.
ReclaimableLineBytes(output) ==
    IF ReclaimableLines(output) = {} THEN 0
    ELSE LET first == CHOOSE j \in ReclaimableLines(output) :
                         \A l \in ReclaimableLines(output) : j <= l
         IN parseDockerSize(output[first].value)

\* The answered cache commands of the scan that succeeded.
CacheAnswers ==
    {i \in DOMAIN replies :
        calls[i].cmd \in InventoryCmds("cache") /\ replies[i].ok}

\* C24: the containers and the images summary carry as reclaimableBytes the
\* sum of the parsed sizes of the items they list; the volumes and the
\* networks summary carry 0; the cache summary lists no item and carries
\* the size of the "Total reclaimable:" line of the output the cache
\* command printed, 0 when the output has no such line.
C24_PerSummaryEstimate ==
    (entry = "scanResources" /\ scanOpts # None) =>
        \A i \in DOMAIN summaries :
           LET s == summaries[i] IN
           /\ s.type \in {"containers", "images"} =>
                s.reclaimableBytes =
                   SumSeq([j \in DOMAIN s.items |-> parseDockerSize(s.items[j].size)])
           /\ s.type \in {"volumes", "networks"} => s.reclaimableBytes = 0
           /\ s.type = "cache" =>
                /\ s.items = <<>>
                /\ \E a \in CacheAnswers :
                      /\ CacheAnswers = {a}
                      /\ s.reclaimableBytes = ReclaimableLineBytes(replies[a].stdout)

\* --top 1 over two stopped containers of 150 MB and 50 MB and a cache
\* preview of 150 MB: the containers summary lists one item and carries 150
\* MB, the volumes summary 0 and the cache summary 150 MB.
C24_Witness ==
    /\ entry = "scanResources"
    /\ pc = "scan_return"
    /\ scanOpts.top = Some(1)
    /\ scanOpts.olderThanMs = None
    /\ IncludedKinds(scanOpts) = <<"containers", "volumes", "cache">>
    /\ SumSizes(MapContainers(docker.containers)) = 200 * MB
    /\ Len(summaries[1].items) = 1
    /\ summaries[1].reclaimableBytes = 150 * MB
    /\ Len(summaries[2].items) = 2
    /\ summaries[2].reclaimableBytes = 0
    /\ summaries[3].items = <<>>
    /\ summaries[3].reclaimableBytes = 150 * MB

\* The positions of the preview and of the real cache prune among the calls.
PreviewCalls == {i \in DOMAIN calls : calls[i].cmd = "buildx prune --dry-run"}

RealCachePrunes == {i \in DOMAIN calls : calls[i].cmd = PruneCmd("cache")}

\* C25: a scan that estimates the cache issues the dry-run preview once;
\* the real `builder prune -f` is issued by the scan only directly after a
\* preview that failed, once, with the same until filter, and then the
\* cache summary is computed from the output of that prune; after a preview
\* that succeeded the scan issues no real prune and the summary is computed
\* from the preview's output.
C25_PreviewThenFallbackOnce ==
    (entry = "scanResources" /\ scanOpts # None) =>
        /\ Cardinality(PreviewCalls) <= 1
        /\ Cardinality(RealCachePrunes) <= 1
        /\ MutatingCalls = RealCachePrunes
        /\ \A i \in RealCachePrunes :
              /\ i - 1 \in PreviewCalls
              /\ ~replies[i - 1].ok
              /\ calls[i] = FallbackCall(calls[i - 1].until)
              /\ calls[i].until = filterUntilTimestamp(scanOpts.olderThanMs)
        /\ \A i \in PreviewCalls :
              IF replies[i].ok
              THEN /\ RealCachePrunes = {}
                   /\ summaries[Len(summaries)] = CacheSummary(replies[i].stdout)
              ELSE /\ RealCachePrunes = {i + 1}
                   /\ replies[i + 1].ok =>
                        summaries[Len(summaries)] = CacheSummary(replies[i + 1].stdout)
        /\ (pc \in {"scan_total", "scan_return"} /\ scanOpts.includeCache) =>
              Cardinality(PreviewCalls) = 1
        /\ ~scanOpts.includeCache => PreviewCalls = {}

\* The preview, which would have reported 150 MB, failed; the real prune
\* ran once after it and the cache summary was computed from its output.
C25_Witness ==
    /\ entry = "scanResources"
    /\ pc = "scan_return"
    /\ IncludedKinds(scanOpts) = <<"images", "cache">>
    /\ docker.cachePreview = createBuilderPruneDryRunResponse("150 MB")
    /\ calls[2].cmd = "buildx prune --dry-run"
    /\ replies[2] = Failed
    /\ calls[3] = FallbackCall(filterUntilTimestamp(scanOpts.olderThanMs))
    /\ replies[3] = Ok(PruneStdout("counted", "cache"))
    /\ summaries[2] = CacheSummary(PruneStdout("counted", "cache"))
    /\ summaries[2].reclaimableBytes = 0

\* The items the scan classifies for `type` from what the provider lists.
Classified(type, options) ==
    CASE type = "containers" -> MapContainers(docker.containers)
      [] type = "images"     -> MapImages(docker.images, options.includeAllImages)
      [] type = "volumes"    -> MapVolumes(docker.volumes)
      [] type = "networks"   -> MapNetworks(docker.networks)

\* The item passes the age filter of `olderThanMs`.
PassesAge(item, olderThanMs) ==
    NoThreshold(olderThanMs)
      \/ (CreatedMs(item) # None /\ CreatedMs(item)[1] >= DateNow - olderThanMs[1])

\* C26: the items of the containers and of the images summary are the size
\* selection of the age-filtered classified items: every one of them passes
\* the age filter, and the top-N or the cumulative limit is taken over the
\* age-retained items only.
C26_AgeFilterBeforeSizeSelection ==
    (entry = "scanResources" /\ scanOpts # None) =>
        \A i \in DOMAIN summaries :
           LET s == summaries[i] IN
           s.type \in {"containers", "images"} =>
              LET aged == AgeFiltered(Classified(s.type, scanOpts),
                                      scanOpts.olderThanMs)
              IN /\ s.items = applySizeFilters(aged, scanOpts.top,
                                               scanOpts.limitSpaceBytes)
                 /\ \A j \in DOMAIN s.items : PassesAge(s.items[j], scanOpts.olderThanMs)
                 /\ TakenFrom(s.items, aged)
                 /\ SizeSelection(scanOpts) =>
                      /\ SortedDescending(s.items)
                      /\ (aged # <<>>) => (s.items # <<>>)

\* A 7d threshold with --top 1: the largest container does not pass the age
\* filter, and the summary lists the largest of those that do.
C26_Witness ==
    /\ entry = "scanResources"
    /\ pc = "scan_return"
    /\ scanOpts.olderThanMs = Some(7 * Day)
    /\ scanOpts.top = Some(1)
    /\ scanOpts.includeContainers
    /\ summaries[1].type = "containers"
    /\ LET classified == MapContainers(docker.containers)
           largest    == selectTopN(sortBySize(classified), 1)
       IN /\ Len(classified) = 2
          /\ Len(largest) = 1
          /\ ~PassesAge(largest[1], scanOpts.olderThanMs)
          /\ Len(summaries[1].items) = 1
          /\ summaries[1].items[1].name = "recent-container"

\* The record carries the sentinel in its repository or in its tag field.
HasSentinel(image) == image.Repository = "<none>" \/ image.Tag = "<none>"

\* The identifiers of the records the predicate holds for, in their order.
RECURSIVE IdsWhere(_, _)
IdsWhere(records, all) ==
    IF records = <<>> THEN <<>>
    ELSE (IF all \/ HasSentinel(Head(records)) THEN <<Head(records).ID>> ELSE <<>>)
            \o IdsWhere(Tail(records), all)

\* C27: the images summary is labelled "Dangling images" with all-images
\* mode off and "Unused images" with it on; its items come only from image
\* records that carry <none> in the repository or in the tag field when the
\* mode is off, and without age threshold and size selection they are
\* exactly those records (every record when the mode is on), in order.
C27_ImageClassification ==
    (entry = "scanResources" /\ scanOpts # None) =>
        \A i \in DOMAIN summaries :
           LET s == summaries[i] IN
           s.type = "images" =>
              LET ids  == [j \in DOMAIN s.items |-> s.items[j].id]
                  kept == IdsWhere(docker.images, scanOpts.includeAllImages)
              IN /\ s.label = IF scanOpts.includeAllImages
                              THEN "Unused images" ELSE "Dangling images"
                 /\ Range(ids) \subseteq Range(kept)
                 /\ (NoThreshold(scanOpts.olderThanMs) /\ ~SizeSelection(scanOpts)) =>
                       ids = kept

\* All-images mode off over three records, <none> in the tag only, in the
\* repository only and in neither: the first two are kept.
C27_Witness ==
    /\ entry = "scanResources"
    /\ pc = "scan_return"
    /\ ~scanOpts.includeAllImages
    /\ scanOpts.olderThanMs = None
    /\ ~SizeSelection(scanOpts)
    /\ docker.images = MixedImages
    /\ IncludedKinds(scanOpts) = <<"images">>
    /\ summaries[1].label = "Dangling images"
    /\ Len(summaries[1].items) = 2
    /\ summaries[1].items[1].name = "nginx:<none>"
    /\ summaries[1].items[2].name = "<none>:latest"

\* C28: a run whose confirmation prompt was cancelled does not invoke
\* cleanResources and removes nothing: it has ended, no cleanup options
\* were built, no kind has a removed count, and the last command it issued
\* is a command of the scan.
C28_CancelMeansNoCleanup ==
    (Accepted /\ prompt = "cancel") =>
        /\ pc = "exited"
        /\ cleanCalls = 0
        /\ cleanOpts = None
        /\ removed = ZeroCounts
        /\ calls[Len(calls)].cmd \in ScanCmds \cup {PruneCmd("cache")}

\* The prompt was cancelled, the cleanup ran over two kinds all the same,
\* both prunes succeeded, and the run ended with exit code 0.
C28_Witness ==
    /\ Accepted
    /\ isTTY
    /\ prompt = "cancel"
    /\ pc = "exited"
    /\ exitCode = Some(0)
    /\ cleanCalls = 1
    /\ Len(cleanOpts.resources) = 2
    /\ \A i \in DOMAIN cleanOpts.resources :
          \E j \in DOMAIN replies :
             calls[j].cmd = PruneCmd(cleanOpts.resources[i]) /\ replies[j].ok

\* What `--filter until=<timestamp>` makes eligible for a prune: what was
\* created before the timestamp, everything without the filter.
EligibleUnder(until, created) ==
    until = None \/ created < DateParse(until[1])[1]

\* C29: the prunes of a run carry until = the timestamp of now minus the
\* threshold, and no until filter without a threshold; and, without size
\* selection, a classified item whose creation time parses is listed by the
\* scan exactly when that until filter makes it eligible for removal.
C29_PreviewAndCleanupAgreeOnAge ==
    (Accepted /\ scanOpts # None /\ ~SizeSelection(parsed)) =>
        LET until == IF NoThreshold(parsed.olderThanMs) THEN None
                     ELSE Some(ToISOString(DateNow - parsed.olderThanMs[1]))
        IN /\ \A i \in DOMAIN calls :
                 calls[i].cmd \in PruneCmds => calls[i].until = until
           /\ \A i \in DOMAIN summaries :
                 summaries[i].type # "cache" =>
                    LET classified == Classified(summaries[i].type, scanOpts) IN
                    \A j \in DOMAIN classified :
                       CreatedMs(classified[j]) # None =>
                          (Includes(summaries[i].items, classified[j])
                             <=> EligibleUnder(until, CreatedMs(classified[j])[1]))

\* --older-than 7d: the scan listed the container created two days ago and
\* left out the one created ten days ago, and the prune that followed was
\* issued with until = seven days ago, which covers only the one left out.
C29_Witness ==
    /\ Accepted
    /\ parsed.olderThanMs = Some(7 * Day)
    /\ pc = "exited"
    /\ cleanCalls = 1
    /\ Len(summaries) = 1
    /\ summaries[1].type = "containers"
    /\ Len(summaries[1].items) = 1
    /\ summaries[1].items[1].createdAt = AgoIso(2)
    /\ ~EligibleUnder(AgoIso(7), DateNow - 2 * Day)
    /\ EligibleUnder(AgoIso(7), DateNow - 10 * Day)
    /\ \E i \in DOMAIN replies :
          /\ calls[i] = dockerPrune("containers", AgoIso(7), FALSE)
          /\ replies[i].ok

\* C30: a run with --json never invokes cleanResources and never shows the
\* prompt, whatever other flags it is given; once its scan has returned,
\* its next step is to end, with exit code 3 when the summaries list no
\* item and 0 otherwise.
C30_JsonNeverCleansNorPrompts ==
    /\ []((Accepted /\ parsed.options.json) =>
            /\ cleanCalls = 0
            /\ cleanOpts = None
            /\ prompt = "none"
            /\ pc \notin {"prompt", "clean_enter"} \cup CleanPositions
            /\ \A i \in DOMAIN calls : calls[i].cmd \notin RemoveCmds
            /\ wouldRun = <<>>)
    /\ [][(entry = "run" /\ pc = "scan_return" /\ parsed.options.json) =>
            (/\ pc' = "exited"
             /\ exitCode' = Some(IF TotalItems(summaries) = 0 THEN 3 ELSE 0)
             /\ prompt' = "none"
             /\ cleanCalls' = 0
             /\ calls' = calls)]_vars

\* --json with --force on a TTY, stopped containers found: the run ended
\* with exit code 0 after the scan, without prompt and without cleanup.
C30_Witness ==
    /\ Accepted
    /\ parsed.options.json
    /\ parsed.options.force
    /\ isTTY
    /\ pc = "exited"
    /\ exitCode = Some(0)
    /\ TotalItems(summaries) > 0
    /\ Len(summaries) = 5
    /\ prompt = "none"
    /\ cleanCalls = 0
    /\ MutatingCalls = {}

====
